---- MODULE Spec2Model ----
(***************************************************************************)
(* Model of the MCP/OpenAI client of ng-mcp-chatbot:                       *)
(*   src/src/app/openai.service.ts (class OpenAIService, lines 253-563)    *)
(*   src/src/app/app.ts            (class App)                             *)
(*   src/src/app/api-key-config.component.ts (class ApiKeyConfigComponent) *)
(*   src/unnamed/part_000          (class ConfigService)                   *)
(*                                                                         *)
(* JavaScript values are tagged records, a thrown exception is a           *)
(* completion record with ok = FALSE, texts are TLA+ strings and an HTTP   *)
(* body is a sequence of text tokens ("\n" is the line separator token).   *)
(***************************************************************************)
EXTENDS Integers, Sequences, FiniteSets, TLC

VARIABLES
    localStorage, \* localStorage.getItem('chatbot-config')
    apiKey,     \* ConfigService._config().openaiApiKey
    clock,      \* Date.now()
    pc,         \* position of the service call: idle, mcp, openai, done
    op,         \* the OpenAIService method that was invoked
    messages,   \* argument messages of sendMessage / sendMessageWithMCPContext
    mcpTools,   \* argument mcpTools of sendMessageWithMCPContext
    request,    \* body of the POST to /api/mcp
    openaiRequest, \* body of the POST to the completion endpoint
    posts,      \* HTTP POSTs issued by this call: [mcp |-> n, openai |-> n]
    response,   \* the HTTP response delivered last
    mcpResult,  \* notification of the callMCPMethod/initializeMCP observable
    enhanced,   \* messages handed to sendMessage by switchMap
    result,     \* notification delivered to the subscriber of the call
    isApiKeyConfigured,  \* ConfigService.isApiKeyConfigured()
    mcpServerUrl,        \* ConfigService._config().mcpServerUrl
    started,             \* ngOnInit of App has run
    mcpHealthStatus,     \* App.mcpHealthStatus()
    arrays,              \* the OpenAIMessage[] objects App has created
    conversationHistory, \* App.conversationHistory: a reference into arrays
    appMessages,         \* App.messages(): the displayed messages
    calls                \* the asynchronous operations App has started

\* the state of App and of ConfigService apart from the credential
appVars == <<isApiKeyConfigured, mcpServerUrl, started, mcpHealthStatus, arrays,
             conversationHistory, appMessages, calls>>

\* the state of one OpenAIService call observed on its own
callVars == <<pc, op, messages, mcpTools, request, openaiRequest, posts,
              response, mcpResult, enhanced, result>>

vars == <<localStorage, apiKey, clock, pc, op, messages, mcpTools, request, openaiRequest,
          posts, response, mcpResult, enhanced, result, appVars>>

----------------------------------------------------------------------------
(* Bounds *)

MaxBodyLen == 4     \* tokens in a response body (SpecRpc)
MaxClock == 1       \* Date.now() ranges over 0..MaxClock
MaxMessages == 3    \* length of an input conversation (SpecEnrich)
MaxEvents == 2      \* user events: message sent, configuration saved, conversation cleared (SpecApp)

----------------------------------------------------------------------------
(* JavaScript values and completions *)

Undef == [t |-> "undefined"]
Null == [t |-> "null"]
Str(s) == [t |-> "string", s |-> s]
Num(n) == [t |-> "number", n |-> n]
Arr(a) == [t |-> "array", a |-> a]
\* an object is the sequence of its <<key, value>> properties
Obj(o) == [t |-> "object", o |-> o]
HasKey(o, k) == \E i \in 1..Len(o) : o[i][1] = k
ValueOf(o, k) == o[CHOOSE i \in 1..Len(o) : o[i][1] = k][2]
Err(name, message, status) ==
    [t |-> "error", name |-> name, message |-> message, status |-> status]

Ok(v) == [ok |-> TRUE, v |-> v]
Throw(e) == [ok |-> FALSE, v |-> e]
None == [ok |-> TRUE, v |-> [t |-> "pending"]]

\* ToBoolean
Truthy(v) ==
    ~ \/ v.t \in {"undefined", "null"}
      \/ v.t = "string" /\ v.s = ""
      \/ v.t = "number" /\ v.n = 0

\* Array.isArray
IsArray(v) == v.t = "array"

\* statusText of an HttpErrorResponse
StatusText(status) ==
    CASE status = 0 -> "Unknown Error"
      [] status = 401 -> "Unauthorized"
      [] status = 404 -> "Not Found"
      [] status = 429 -> "Too Many Requests"
      [] OTHER -> "Internal Server Error"

\* property read  v.k
Prop(v, k) ==
    IF v.t \in {"undefined", "null"}
    THEN Throw(Err("TypeError", "Cannot read properties of " \o v.t, Undef))
    ELSE IF v.t = "object"
    THEN Ok(IF HasKey(v.o, k) THEN ValueOf(v.o, k) ELSE Undef)
    ELSE IF v.t = "array" /\ k = "length" THEN Ok(Num(Len(v.a)))
    ELSE IF v.t = "string" /\ k = "length" THEN Ok(Num(Len(v.s)))
    ELSE IF v.t = "error" /\ k = "message" THEN Ok(Str(v.message))
    ELSE IF v.t = "error" /\ k = "status" THEN Ok(v.status)
    ELSE IF v.t = "error" /\ k = "statusText" /\ v.name = "HttpErrorResponse"
    THEN Ok(Str(StatusText(v.status.n)))
    ELSE Ok(Undef)

RECURSIVE JoinStr(_, _)
\* strings joined with a separator
JoinStr(ss, sep) ==
    IF ss = <<>> THEN ""
    ELSE IF Len(ss) = 1 THEN ss[1]
    ELSE ss[1] \o sep \o JoinStr(Tail(ss), sep)

\* ToString, as applied by a template literal ${v}
ToStr(v) ==
    CASE v.t = "string" -> v.s
      [] v.t = "number" -> ToString(v.n)
      [] v.t = "undefined" -> "undefined"
      [] v.t = "null" -> "null"
      [] v.t = "error" -> v.name \o ": " \o v.message
      [] v.t = "array" -> "[array]"
      [] OTHER -> "[object Object]"

----------------------------------------------------------------------------------------------------------------------------------------
(* JSON.  A document pairs a JSON text with the value it denotes; the       *)
(* constructors below build both together, as JSON.stringify would.         *)
(* JSON.parse is the inverse on the documents of the model (JsonDocs);      *)
(* every other text that occurs in the model is not valid JSON.             *)

Doc(text, value) == [text |-> text, value |-> value]

RECURSIVE Escape(_)
\* the characters of s with every double quote and backslash escaped
Escape(s) ==
    IF Len(s) = 0 THEN ""
    ELSE IF Len(s) = 1
    THEN (IF s = "\"" THEN "\\\"" ELSE IF s = "\\" THEN "\\\\" ELSE s)
    ELSE LET half == Len(s) \div 2
         IN Escape(SubSeq(s, 1, half)) \o Escape(SubSeq(s, half + 1, Len(s)))

JsonString(s) == "\"" \o Escape(s) \o "\""

NullDoc == Doc("null", Null)
StrDoc(s) == Doc(JsonString(s), Str(s))
NumDoc(n) == Doc(ToString(n), Num(n))
RECURSIVE Texts(_)
Texts(ds) == IF ds = <<>> THEN <<>> ELSE <<ds[1].text>> \o Texts(Tail(ds))
RECURSIVE Values(_)
Values(ds) == IF ds = <<>> THEN <<>> ELSE <<ds[1].value>> \o Values(Tail(ds))
RECURSIVE Members(_, _)
\* the "key":text members of an object
Members(keys, ds) ==
    IF keys = <<>> THEN <<>>
    ELSE <<JsonString(keys[1]) \o ":" \o ds[1].text>> \o Members(Tail(keys), Tail(ds))
RECURSIVE Properties(_, _)
Properties(keys, ds) ==
    IF keys = <<>> THEN <<>>
    ELSE << <<keys[1], ds[1].value>> >> \o Properties(Tail(keys), Tail(ds))

ListDoc(ds) == Doc("[" \o JoinStr(Texts(ds), ",") \o "]", Arr(Values(ds)))
\* an object with the given keys, in this order
ObjDoc(keys, ds) ==
    Doc("{" \o JoinStr(Members(keys, ds), ",") \o "}", Obj(Properties(keys, ds)))

\* company records
AcmeDoc ==
    ObjDoc(<<"company", "description", "chats", "llms">>,
           <<StrDoc("Acme"), StrDoc("d"),
             ListDoc(<<ObjDoc(<<"chatbot">>, <<StrDoc("c1")>>)>>),
             ListDoc(<<ObjDoc(<<"llm", "specialization">>, <<StrDoc("m1"), StrDoc("s1")>>)>>)>>)
BetaDoc ==
    ObjDoc(<<"company", "description", "chats">>,
           <<StrDoc("Beta"), StrDoc("e"),
             ListDoc(<<ObjDoc(<<"chatbot">>, <<StrDoc("c2")>>),
                       ObjDoc(<<"chatbot">>, <<StrDoc("c3")>>)>>)>>)
\* records that cannot be rendered
BadChatsDoc == ObjDoc(<<"company", "chats">>, <<StrDoc("Acme"), StrDoc("c1")>>)
NullChatDoc == ObjDoc(<<"company", "chats">>, <<StrDoc("Acme"), ListDoc(<<NullDoc>>)>>)

CompaniesDoc(list) == ObjDoc(<<"companies">>, <<list>>)
\* {content: [{type: "text", text: <text>}]}
ContentDoc(text) ==
    ObjDoc(<<"content">>,
           <<ListDoc(<<ObjDoc(<<"type", "text">>, <<StrDoc("text"), StrDoc(text)>>)>>)>>)

\* documents carried as text in content[0].text
InnerDocs ==
    {ListDoc(<<AcmeDoc>>), CompaniesDoc(ListDoc(<<AcmeDoc, BetaDoc>>)), AcmeDoc,
     ListDoc(<<>>), CompaniesDoc(ListDoc(<<>>)), NullDoc, NumDoc(7)}
InnerBadText == "Acme, Beta"

\* result payloads of the getCompanies tool call
PayloadDocs ==
    {ContentDoc(d.text) : d \in InnerDocs} \cup
    {ContentDoc(InnerBadText),
     ListDoc(<<AcmeDoc, BetaDoc>>), ListDoc(<<>>),
     CompaniesDoc(ListDoc(<<AcmeDoc>>)), CompaniesDoc(ListDoc(<<>>)),
     BetaDoc, NullDoc, StrDoc("ok"),
     ListDoc(<<NullDoc>>), ListDoc(<<BadChatsDoc>>), ListDoc(<<NullChatDoc>>),
     ObjDoc(<<"content">>, <<ListDoc(<<>>)>>),
     ObjDoc(<<"content">>, <<ListDoc(<<ObjDoc(<<"type">>, <<StrDoc("image")>>)>>)>>),
     ObjDoc(<<"content">>, <<ListDoc(<<ListDoc(<<AcmeDoc>>)>>)>>)}

\* JSON-RPC response envelopes
ResultDoc(p) ==
    ObjDoc(<<"jsonrpc", "id", "result">>, <<StrDoc("2.0"), NumDoc(1), p>>)
ToolsDoc == ObjDoc(<<"tools">>, <<ListDoc(<<>>)>>)
ErrorDoc(message) == ObjDoc(<<"code", "message">>, <<NumDoc(-32601), StrDoc(message)>>)
RemoteErrorDoc ==
    ObjDoc(<<"jsonrpc", "id", "error">>,
           <<StrDoc("2.0"), NumDoc(1), ErrorDoc("Method not found")>>)
ErrorAndResultDoc == ObjDoc(<<"error", "result">>, <<ErrorDoc("boom"), ListDoc(<<>>)>>)
NullErrorDoc == ObjDoc(<<"error", "result">>, <<NullDoc, ListDoc(<<>>)>>)
StringErrorDoc == ObjDoc(<<"error">>, <<StrDoc("denied")>>)
EmptyObjectDoc == ObjDoc(<<>>, <<>>)

\* documents that occur on a data line of SpecRpc
FrameDocs ==
    {ResultDoc(ToolsDoc), RemoteErrorDoc, ErrorAndResultDoc, NullErrorDoc,
     StringErrorDoc, NullDoc, EmptyObjectDoc}
\* envelopes of a getCompanies response
CompaniesFrameDocs ==
    {ResultDoc(p) : p \in PayloadDocs} \cup {RemoteErrorDoc, EmptyObjectDoc}

\* a tools/list result with one tool
ToolsListDoc ==
    ObjDoc(<<"tools">>,
           <<ListDoc(<<ObjDoc(<<"name", "description">>,
                              <<StrDoc("getCompanies"), StrDoc("Get all companies")>>)>>)>>)

JsonDocs == FrameDocs \cup CompaniesFrameDocs \cup InnerDocs \cup {ResultDoc(ToolsListDoc)}
BadJsonText == "{\"result\":"

\* the completion of JSON.parse, given the values of the documents that have
\* the parsed text: a SyntaxError when there is none
ParsedValue(values) ==
    IF values = {}
    THEN Throw(Err("SyntaxError", "Unexpected token in JSON", Undef))
    ELSE Ok(CHOOSE v \in values : TRUE)

\* JSON.parse(text)
JsonParse(text) == ParsedValue({d.value : d \in {e \in JsonDocs : e.text = text}})

----------------
(* HTTP transport *)

NL == "\n"
DataPrefix == "data: "

HttpOk(body) == [ok |-> TRUE, status |-> 200, body |-> body]
HttpFail(status) == [ok |-> FALSE, status |-> status, body |-> <<>>]
NoResponse == [ok |-> FALSE, status |-> -1, body |-> <<>>]

\* statuses of a failed request: network error, not found, unauthorized,
\* rate limited, server error
FailStatuses == {0, 404, 401, 429, 500}

\* HttpErrorResponse raised by HttpClient for a failed request
HttpError(resp) ==
    Err("HttpErrorResponse", "Http failure response", Num(resp.status))

RECURSIVE SeqsUpTo(_, _)
\* all sequences over S of length at most n
SeqsUpTo(S, n) ==
    IF n = 0 THEN {<<>>}
    ELSE LET shorter == SeqsUpTo(S, n - 1)
         IN shorter \cup {Append(q, x) : q \in {r \in shorter : Len(r) = n - 1}, x \in S}

----------------------------------------------------------------------------
(* Frame decoding: the map callback of callMCPMethod and initializeMCP *)

RECURSIVE Split(_)
\* response.split('\n'): the lines of a body, each a string; no token other
\* than NL contains a line break
Split(body) ==
    IF body = <<>> THEN <<"">>
    ELSE LET rest == Split(Tail(body))
         IN IF Head(body) = NL
            THEN <<"">> \o rest
            ELSE <<Head(body) \o rest[1]>> \o Tail(rest)

\* s.startsWith(prefix)
StartsWith(s, prefix) ==
    Len(s) >= Len(prefix) /\ SubSeq(s, 1, Len(prefix)) = prefix

\* s.substring(start)
Substring(s, start) == SubSeq(s, start + 1, Len(s))

\* FindDataLine taking the last data line instead of the first
FindDataLine_last(lines) ==
    LET hits == {i \in 1..Len(lines) : StartsWith(lines[i], DataPrefix)}
    IN IF hits = {} THEN 0 ELSE CHOOSE i \in hits : \A j \in hits : i >= j

\* index of lines.find(line => line.startsWith('data: ')), 0 when undefined
FindDataLine(lines) ==
    LET hits == {i \in 1..Len(lines) : StartsWith(lines[i], DataPrefix)}
    IN IF hits = {} THEN 0 ELSE CHOOSE i \in hits : \A j \in hits : i <= j

\* ParsedResult returning a result that is present before looking at the
\* error
ParsedResult_resultFirst(parsedData, errorPrefix) ==
    IF ~parsedData.ok THEN parsedData
    ELSE LET error == Prop(parsedData.v, "error")
         IN IF ~error.ok THEN error
            ELSE IF Prop(parsedData.v, "result").v # Undef
            THEN Prop(parsedData.v, "result")
            ELSE IF Truthy(error.v)
            THEN Throw(Err("Error",
                           errorPrefix \o ToStr(Prop(error.v, "message").v),
                           Undef))
            ELSE Prop(parsedData.v, "result")

\* the statements after JSON.parse, given its completion parsedData: the
\* SyntaxError passes through, a truthy error field throws, otherwise the
\* result field is returned
ParsedResult(parsedData, errorPrefix) ==
    IF ~parsedData.ok THEN parsedData
    ELSE LET error == Prop(parsedData.v, "error")
         IN IF ~error.ok THEN error
            ELSE IF Truthy(error.v)
            THEN Throw(Err("Error",
                           errorPrefix \o ToStr(Prop(error.v, "message").v),
                           Undef))
            ELSE Prop(parsedData.v, "result")

\* ParseSSE reporting a body without data line as a remote error
ParseSSE_missingAsRemote(body, errorPrefix) ==
    LET lines == Split(body)
        idx == FindDataLine(lines)
    IN IF idx = 0
       THEN Throw(Err("Error", errorPrefix \o "Invalid SSE response format", Undef))
       ELSE ParsedResult(JsonParse(Substring(lines[idx], 6)), errorPrefix)

\* the map callback: SSE body to result, or a thrown error
ParseSSE(body, errorPrefix) ==
    LET lines == Split(body)
        idx == FindDataLine(lines)
    IN IF idx = 0
       THEN Throw(Err("Error", "Invalid SSE response format", Undef))
       ELSE ParsedResult(JsonParse(Substring(lines[idx], 6)), errorPrefix)

\* http.post(...).pipe(map(...), catchError(rethrow)) of callMCPMethod
callMCPMethodPipe(resp) ==
    IF resp.ok THEN ParseSSE(resp.body, "MCP Error: ")
    ELSE Throw(HttpError(resp))

\* http.post(...).pipe(map(...), catchError(rethrow)) of initializeMCP
initializeMCPPipe(resp) ==
    IF resp.ok THEN ParseSSE(resp.body, "MCP Initialization Error: ")
    ELSE Throw(HttpError(resp))

----------------------------------------------------------------------------
(* Requests *)

NoRequest == [jsonrpc |-> "none"]

\* the JSON-RPC request built by callMCPMethod(method, params)
JsonRpcRequest(method, params) ==
    [jsonrpc |-> "2.0", id |-> clock, method |-> method,
     params |-> IF Truthy(params) THEN params ELSE Obj(<<>>)]

\* the params built by callMCPTool(toolName, params)
ToolCallParams(toolName, params) ==
    Obj(<< <<"name", Str(toolName)>>,
           <<"arguments", IF Truthy(params) THEN params ELSE Obj(<<>>)>> >>)

InitRequest ==
    [jsonrpc |-> "2.0", id |-> 1, method |-> "initialize",
     params |-> Obj(<< <<"protocolVersion", Str("2024-11-05")>>,
                       <<"capabilities", Obj(<<>>)>>,
                       <<"clientInfo", Obj(<< <<"name", Str("angular-mcp-client")>>,
                                              <<"version", Str("1.0.0")>> >>)>> >>)]

ToolNames == {"getCompanies", "diagnostic"}
ToolArgs == {Undef, Obj(<< <<"companyName", Str("Acme")>> >>)}

----------------------------------------------------------------------------
(* State after construction *)

Keys == {"", "sk-1"}
NoMessages == <<>>

DEFAULT_MCP_URL == "http://localhost:3100"

\* an entry of App.messages (the timestamp is left out)
Shown(content, isUser) == [content |-> content, isUser |-> isUser]

\* the welcome entry App.messages starts with (pictographs left out)
Welcome ==
    Shown("Welcome! I'm your AI assistant powered by OpenAI's GPT models with MCP (Model Context Protocol) integration.\n\n**Current Configuration:**\n- MCP Server: "
          \o mcpServerUrl \o "\n- OpenAI API: "
          \o (IF apiKey # "" THEN "Configured" ELSE "Not configured")
          \o "\n\n**Try asking:** \"What AI companies are available?\" to access live data from the MCP server!\n\nHow can I help you today?",
          FALSE)

\* localStorage.getItem of an item that is not there
NoItem == Null
\* JSON.stringify(this._config())
ConfigDoc(key, url) ==
    ObjDoc(<<"openaiApiKey", "mcpServerUrl">>, <<StrDoc(key), StrDoc(url)>>)

\* App after construction, given the configuration
AppCreated ==
    /\ started = FALSE
    /\ mcpHealthStatus = "Unknown"
    /\ arrays = << <<>> >>
    /\ conversationHistory = 1
    /\ appMessages = <<Welcome>>
    /\ calls = <<>>

\* App and ConfigService after construction, for the credential loadConfig
\* found: no item, or the item saveConfig wrote for that credential
AppConstructed ==
    /\ isApiKeyConfigured = (apiKey # "")
    /\ mcpServerUrl = DEFAULT_MCP_URL
    /\ localStorage = IF apiKey = "" THEN NoItem
                      ELSE Str(ConfigDoc(apiKey, DEFAULT_MCP_URL).text)
    /\ AppCreated

\* no call of OpenAIService has been made
ServiceIdle ==
    /\ pc = "idle"
    /\ op = "none"
    /\ messages = NoMessages
    /\ mcpTools = Undef
    /\ request = NoRequest
    /\ openaiRequest = NoRequest
    /\ posts = [mcp |-> 0, openai |-> 0]
    /\ response = NoResponse
    /\ mcpResult = None
    /\ enhanced = None
    /\ result = None

InitService ==
    /\ clock \in 0..MaxClock
    /\ ServiceIdle
    /\ AppConstructed

----------------------------------------------------------------------------
(* ConfigService (src/unnamed/part_000)                                    *)
(*                                                                         *)
(* localStorage holds the item 'chatbot-config': NoItem or a text.  Every  *)
(* access to it may throw; the service catches the exception.              *)

ConfigKeys == {"", "sk-1", "sk-2"}
ConfigUrls == {"", "http://mcp.test"}

\* documents an item of localStorage may hold
StoredDocs ==
    {ConfigDoc(key, url) : key \in ConfigKeys, url \in ConfigUrls \cup {DEFAULT_MCP_URL}}
    \cup {NullDoc, EmptyObjectDoc, ObjDoc(<<"openaiApiKey">>, <<StrDoc("sk-1")>>)}
\* JSON.parse of an item
StoredParse(text) == ParsedValue({d.value : d \in {e \in StoredDocs : e.text = text}})
\* what localStorage may hold when the service is constructed
StoredItems ==
    {NoItem, Str(""), Str(BadJsonText)} \cup {Str(d.text) : d \in StoredDocs}

\* the initial value of the signals, and resetToDefaults()
DefaultConfig ==
    [openaiApiKey |-> "", mcpServerUrl |-> DEFAULT_MCP_URL, isApiKeyConfigured |-> FALSE]

\* the body of the try block of loadConfig once JSON.parse has returned
\* config, or thrown
ParsedConfig(config) ==
    IF ~config.ok \/ ~Prop(config.v, "openaiApiKey").ok THEN DefaultConfig
    ELSE [openaiApiKey |->
              IF Truthy(Prop(config.v, "openaiApiKey").v)
              THEN Prop(config.v, "openaiApiKey").v.s ELSE "",
          mcpServerUrl |->
              IF Truthy(Prop(config.v, "mcpServerUrl").v)
              THEN Prop(config.v, "mcpServerUrl").v.s ELSE DEFAULT_MCP_URL,
          isApiKeyConfigured |-> Truthy(Prop(config.v, "openaiApiKey").v)]

\* the signals after the constructor and loadConfig(), given the completion
\* of localStorage.getItem
LoadedConfig(stored) ==
    IF ~stored.ok THEN DefaultConfig
    ELSE IF ~Truthy(stored.v) THEN DefaultConfig
    ELSE ParsedConfig(StoredParse(stored.v.s))

\* JSON.stringify of every configuration the signals may hold
Stringified ==
    [key \in ConfigKeys, url \in ConfigUrls \cup {DEFAULT_MCP_URL} |->
        ConfigDoc(key, url).text]

\* saveConfig() for the configuration just set; an exception of setItem is
\* caught
saveConfig(key, url) ==
    \E setItemThrows \in BOOLEAN :
        localStorage' = IF setItemThrows THEN localStorage
                        ELSE Str(Stringified[key, url])

setApiKey(key) ==
    /\ apiKey' = key
    /\ isApiKeyConfigured' = (key # "")
    /\ UNCHANGED mcpServerUrl
    /\ saveConfig(key, mcpServerUrl)

setMcpServerUrl(url) ==
    /\ mcpServerUrl' = IF url # "" THEN url ELSE DEFAULT_MCP_URL
    /\ UNCHANGED <<apiKey, isApiKeyConfigured>>
    /\ saveConfig(apiKey, mcpServerUrl')

\* partial configurations: each field is given or left out
PartialConfigs ==
    {Obj(<<>>)}
    \cup {Obj(<< <<"openaiApiKey", Str(key)>> >>) : key \in ConfigKeys}
    \cup {Obj(<< <<"mcpServerUrl", Str(url)>> >>) : url \in ConfigUrls}
    \cup {Obj(<< <<"openaiApiKey", Str(key)>>, <<"mcpServerUrl", Str(url)>> >>) :
              key \in ConfigKeys, url \in ConfigUrls}

\* updateConfig leaving the flag as it was
updateConfig_flagKept(config) ==
    /\ apiKey' = IF HasKey(config.o, "openaiApiKey")
                 THEN ValueOf(config.o, "openaiApiKey").s ELSE apiKey
    /\ mcpServerUrl' = IF HasKey(config.o, "mcpServerUrl")
                       THEN ValueOf(config.o, "mcpServerUrl").s ELSE mcpServerUrl
    /\ UNCHANGED isApiKeyConfigured
    /\ saveConfig(apiKey', mcpServerUrl')

\* updateConfig(config): {...currentConfig, ...config}
updateConfig(config) ==
    /\ apiKey' = IF HasKey(config.o, "openaiApiKey")
                 THEN ValueOf(config.o, "openaiApiKey").s ELSE apiKey
    /\ mcpServerUrl' = IF HasKey(config.o, "mcpServerUrl")
                       THEN ValueOf(config.o, "mcpServerUrl").s ELSE mcpServerUrl
    /\ isApiKeyConfigured' = (apiKey' # "")
    /\ saveConfig(apiKey', mcpServerUrl')

resetToDefaults ==
    /\ apiKey' = DefaultConfig.openaiApiKey
    /\ mcpServerUrl' = DefaultConfig.mcpServerUrl
    /\ isApiKeyConfigured' = DefaultConfig.isApiKeyConfigured

\* clearConfig(): when localStorage.removeItem throws, the catch block
\* leaves the configuration as it is
ConfigService_clearConfig ==
    \E removeItemThrows \in BOOLEAN :
        IF removeItemThrows
        THEN UNCHANGED <<localStorage, apiKey, isApiKeyConfigured, mcpServerUrl>>
        ELSE /\ localStorage' = NoItem
             /\ resetToDefaults

\* the page is loaded again: ConfigService and App are constructed anew
loadConfig ==
    \E getItemThrows \in BOOLEAN :
        /\ apiKey' = LoadedConfig(IF getItemThrows THEN Throw(Undef)
                                  ELSE Ok(localStorage)).openaiApiKey
        /\ mcpServerUrl' = LoadedConfig(IF getItemThrows THEN Throw(Undef)
                                        ELSE Ok(localStorage)).mcpServerUrl
        /\ isApiKeyConfigured' = LoadedConfig(IF getItemThrows THEN Throw(Undef)
                                              ELSE Ok(localStorage)).isApiKeyConfigured
        /\ appMessages' = <<Welcome'>>
        /\ UNCHANGED localStorage

\* what the operations of ConfigService leave alone
ConfigFrame ==
    UNCHANGED <<clock, callVars, started, mcpHealthStatus, arrays, conversationHistory,
                calls>>

NextConfig ==
    \/ \E key \in ConfigKeys : setApiKey(key) /\ ConfigFrame /\ UNCHANGED appMessages
    \/ \E url \in ConfigUrls : setMcpServerUrl(url) /\ ConfigFrame /\ UNCHANGED appMessages
    \/ \E config \in PartialConfigs :
            updateConfig(config) /\ ConfigFrame /\ UNCHANGED appMessages
    \/ (ConfigService_clearConfig /\ ConfigFrame /\ UNCHANGED appMessages)
    \/ (loadConfig /\ ConfigFrame)

\* the service is constructed on whatever localStorage holds
InitConfig ==
    /\ clock = 0
    /\ ServiceIdle
    /\ localStorage \in StoredItems
    /\ \E getItemThrows \in BOOLEAN :
        /\ apiKey = LoadedConfig(IF getItemThrows THEN Throw(Undef)
                                 ELSE Ok(localStorage)).openaiApiKey
        /\ mcpServerUrl = LoadedConfig(IF getItemThrows THEN Throw(Undef)
                                       ELSE Ok(localStorage)).mcpServerUrl
        /\ isApiKeyConfigured = LoadedConfig(IF getItemThrows THEN Throw(Undef)
                                             ELSE Ok(localStorage)).isApiKeyConfigured
    /\ AppCreated

SpecConfig == InitConfig /\ [][NextConfig]_vars

----------------------------------------------------------------------------
(* RPC operations *)

\* callMCPMethod(method, params): one POST to /api/mcp
PostRpc(method, params) ==
    /\ pc = "idle"
    /\ request' = JsonRpcRequest(method, params)
    /\ posts' = [posts EXCEPT !.mcp = @ + 1]
    /\ pc' = "mcp"
    /\ UNCHANGED <<appVars, localStorage, apiKey, clock, messages, mcpTools, openaiRequest, response,
                   mcpResult, enhanced, result>>

\* callMCPMethod called directly
callMCPMethod ==
    /\ op' = "callMCPMethod"
    /\ \E params \in ToolArgs : PostRpc("resources/list", params)

\* getMCPTools(): callMCPMethod('tools/list')
getMCPTools ==
    /\ op' = "getMCPTools"
    /\ PostRpc("tools/list", Undef)

\* callMCPTool(toolName, params): callMCPMethod('tools/call', {name, arguments})
callMCPTool ==
    /\ op' = "callMCPTool"
    /\ \E toolName \in ToolNames, params \in ToolArgs :
        PostRpc("tools/call", ToolCallParams(toolName, params))

initializeMCP ==
    /\ pc = "idle"
    /\ op' = "initializeMCP"
    /\ request' = InitRequest
    /\ posts' = [posts EXCEPT !.mcp = @ + 1]
    /\ pc' = "mcp"
    /\ UNCHANGED <<appVars, localStorage, apiKey, clock, messages, mcpTools, openaiRequest, response,
                   mcpResult, enhanced, result>>

\* bodies of SpecRpc: every token sequence up to MaxBodyLen
FrameTokens ==
    {NL, DataPrefix, "event: message", BadJsonText} \cup {d.text : d \in FrameDocs}
FrameBodies == SeqsUpTo(FrameTokens, MaxBodyLen)
RpcResponses ==
    {HttpOk(b) : b \in FrameBodies} \cup {HttpFail(s) : s \in FailStatuses}

\* the response to an RPC call arrives and the pipe notifies the subscriber
RpcResponse ==
    /\ pc = "mcp"
    /\ op \in {"callMCPMethod", "getMCPTools", "callMCPTool", "initializeMCP"}
    /\ \E resp \in RpcResponses :
        /\ response' = resp
        /\ mcpResult' = IF op = "initializeMCP"
                        THEN initializeMCPPipe(resp)
                        ELSE callMCPMethodPipe(resp)
    /\ result' = mcpResult'
    /\ pc' = "done"
    /\ UNCHANGED <<appVars, localStorage, apiKey, clock, op, messages, mcpTools, request, openaiRequest,
                   posts, enhanced>>

NextRpc == callMCPMethod \/ getMCPTools \/ callMCPTool \/ initializeMCP \/ RpcResponse

\* the RPC operations read neither the credential nor, after building the
\* request id, the clock: both are fixed here
InitRpc == apiKey = "" /\ clock = 0 /\ InitService

SpecRpc == InitRpc /\ [][NextRpc]_vars

----------------------------------------------------------------------------------------------------------------------------------------
(* Context Composer: createContext and sendMessageWithMCPContext *)

TypeError(message) == Err("TypeError", message, Undef)

\* array[0]
First(v) == IF v.t = "array" /\ Len(v.a) > 0 THEN v.a[1] ELSE Undef

\* v > 0
Positive(v) == v.t = "number" /\ v.n > 0

\* array.map(callback) for a callback that may throw, given the callback's
\* completion for each element: the mapped sequence, or the first exception
Mapped(rs) ==
    LET bad == {i \in 1..Len(rs) : ~rs[i].ok}
    IN IF bad = {} THEN Ok([i \in 1..Len(rs) |-> rs[i].v])
       ELSE rs[CHOOSE i \in bad : \A j \in bad : i <= j]

\* the text Array.prototype.join gives an element
JoinElem(v) == IF v.t \in {"undefined", "null"} THEN "" ELSE ToStr(v)

\* list?.map(callback).join(', ') || 'None', given the completion of
\* list.map(callback)
JoinedOrNone(list, mapped) ==
    IF list.t \in {"undefined", "null"} THEN Ok(Str("None"))
    ELSE IF ~mapped.ok THEN mapped
    ELSE LET joined == JoinStr([i \in 1..Len(mapped.v) |-> JoinElem(mapped.v[i])], ", ")
         IN Ok(Str(IF joined = "" THEN "None" ELSE joined))

\* (chat) => chat.chatbot
ChatName(chat) == Prop(chat, "chatbot")

\* chats.map((chat) => chat.chatbot)
ChatNames(list) ==
    IF ~IsArray(list) THEN Throw(TypeError("map is not a function"))
    ELSE Mapped([i \in 1..Len(list.a) |-> ChatName(list.a[i])])

\* (llm) => `${llm.llm} (${llm.specialization})`
LlmLabel(llm) ==
    LET name == Prop(llm, "llm")
    IN IF ~name.ok THEN name
       ELSE Ok(Str(ToStr(name.v) \o " (" \o ToStr(Prop(llm, "specialization").v) \o ")"))

\* llms.map((llm) => ...)
LlmLabels(list) ==
    IF ~IsArray(list) THEN Throw(TypeError("map is not a function"))
    ELSE Mapped([i \in 1..Len(list.a) |-> LlmLabel(list.a[i])])

\* the map callback of createContext: the block of one company
CompanyBlock(company) ==
    LET chatList == Prop(company, "chats")
    IN IF ~chatList.ok THEN chatList
       ELSE LET chats == JoinedOrNone(chatList.v, ChatNames(chatList.v))
            IN IF ~chats.ok THEN chats
               ELSE LET llmList == Prop(company, "llms").v
                        llms == JoinedOrNone(llmList, LlmLabels(llmList))
                    IN IF ~llms.ok THEN llms
                       ELSE Ok(Str("Company: " \o ToStr(Prop(company, "company").v)
                                   \o "\nDescription: " \o ToStr(Prop(company, "description").v)
                                   \o "\nChatbots: " \o chats.v.s
                                   \o "\nLLM Models: " \o llms.v.s))

ParseFailedText == "Error parsing company data."
NoDataText == "No company data available."

\* the try block of createContext: the parsed text as a list of records, or
\* the exception the catch block receives
CompaniesOf(parsedData) ==
    IF ~parsedData.ok THEN parsedData
    ELSE IF IsArray(parsedData.v) THEN Ok(parsedData.v.a)
    ELSE LET companies == Prop(parsedData.v, "companies")
         IN IF ~companies.ok THEN companies
            ELSE IF Truthy(companies.v) /\ IsArray(companies.v)
            THEN Ok(companies.v.a)
            ELSE Ok(<<parsedData.v>>)

\* const parsedData = JSON.parse(contentData.text) and the branches on it
ParsedCompanies(text) == CompaniesOf(JsonParse(ToStr(text)))

\* CompaniesArray without the null check before typeof companies === 'object'
CompaniesArray_nullIsObject(companies) ==
    IF Truthy(companies) /\ Truthy(Prop(companies, "content").v)
       /\ IsArray(Prop(companies, "content").v)
    THEN LET contentData == First(Prop(companies, "content").v)
         IN IF Truthy(contentData) /\ Truthy(Prop(contentData, "text").v)
            THEN ParsedCompanies(Prop(contentData, "text").v)
            ELSE IF IsArray(contentData) THEN Ok(contentData.a)
            ELSE Ok(<<contentData>>)
    ELSE IF IsArray(companies) THEN Ok(companies.a)
    ELSE IF Truthy(companies) /\ Truthy(Prop(companies, "companies").v)
            /\ IsArray(Prop(companies, "companies").v)
    THEN Ok(Prop(companies, "companies").v.a)
    ELSE IF companies.t \in {"object", "array", "error", "null"}
    THEN Ok(<<companies>>)
    ELSE Ok(<<>>)

\* companiesArray of createContext; ok = FALSE stands for the early return
\* of the catch block
CompaniesArray(companies) ==
    IF Truthy(companies) /\ Truthy(Prop(companies, "content").v)
       /\ IsArray(Prop(companies, "content").v)
    THEN LET contentData == First(Prop(companies, "content").v)
         IN IF Truthy(contentData) /\ Truthy(Prop(contentData, "text").v)
            THEN ParsedCompanies(Prop(contentData, "text").v)
            ELSE IF IsArray(contentData) THEN Ok(contentData.a)
            ELSE Ok(<<contentData>>)
    ELSE IF IsArray(companies) THEN Ok(companies.a)
    ELSE IF Truthy(companies) /\ Truthy(Prop(companies, "companies").v)
            /\ IsArray(Prop(companies, "companies").v)
    THEN Ok(Prop(companies, "companies").v.a)
    ELSE IF Truthy(companies) /\ companies.t \in {"object", "array", "error"}
    THEN Ok(<<companies>>)
    ELSE Ok(<<>>)

\* JoinedBlocks with a line break and no blank line between two blocks
JoinedBlocks_lineBreak(blocks) ==
    IF ~blocks.ok THEN blocks
    ELSE Ok(Str(JoinStr([i \in 1..Len(blocks.v) |-> blocks.v[i].s], "\n")))

\* blocks.join('\n\n'), given the completion of the map that builds the blocks
JoinedBlocks(blocks) ==
    IF ~blocks.ok THEN blocks
    ELSE Ok(Str(JoinStr([i \in 1..Len(blocks.v) |-> blocks.v[i].s], "\n\n")))

\* companiesArray.map((company) => ...).join('\n\n')
Blocks(companiesArray) ==
    JoinedBlocks(Mapped([i \in 1..Len(companiesArray) |-> CompanyBlock(companiesArray[i])]))

\* ContextOf rethrowing the parse failure instead of returning a text
ContextOf_rethrow(companiesArray) ==
    IF ~companiesArray.ok THEN companiesArray
    ELSE IF Len(companiesArray.v) = 0 THEN Ok(Str(NoDataText))
    ELSE Blocks(companiesArray.v)

\* createContext from companiesArray on: the text of the catch block, the
\* placeholder of the empty list, or the joined blocks
ContextOf(companiesArray) ==
    IF ~companiesArray.ok THEN Ok(Str(ParseFailedText))
    ELSE IF Len(companiesArray.v) = 0 THEN Ok(Str(NoDataText))
    ELSE Blocks(companiesArray.v)

\* createContext(companies): the context text, or a thrown exception
createContext(companies) == ContextOf(CompaniesArray(companies))

Roles == {"system", "user", "assistant"}
Message(role, content) == [role |-> role, content |-> content]

\* messages.filter((m) => m.role !== 'system')
WithoutSystem(msgs) == SelectSeq(msgs, LAMBDA m : m.role # "system")

RichPromptHead ==
    "You are an AI assistant that helps users find information about AI companies and their products.\n\nYou have access to the following data about AI companies:\n"
RichPromptTail ==
    "\n\nWhen users ask questions, use this data to provide accurate and helpful responses. If the question is about a specific company, you can also suggest using the MCP tools to get more detailed information about their chatbots or LLM models.\n\nAvailable MCP tools:\n- getCompanies: Get all companies with their chats and LLMs\n- getChats(companyName): Get chatbots for a specific company\n- getLLMs(companyName): Get LLM models for a specific company\n\nBe helpful, accurate, and suggest relevant companies or products based on the user's question."
ToolsPromptHead ==
    "You are an AI assistant with access to the following MCP (Model Context Protocol) tools:\n\n"
ToolsPromptTail ==
    "\n\nWhen a user asks about topics that could be answered using these tools, explain what information you could provide if you had access to call these tools. For example, if asked about \"AI companies\", mention that you have access to tools that could provide that information."

\* the map callback of sendMessageWithMCPContext (rich tier)
RichMessages(msgs, context) ==
    IF ~context.ok THEN context
    ELSE Ok(<<Message("system", RichPromptHead \o context.v.s \o RichPromptTail)>>
            \o WithoutSystem(msgs))

\* source.pipe(catchError(() => fallback)): the source's value, or the
\* fallback's completion when the source failed
CatchError(source, fallback) == IF source.ok THEN source ELSE fallback

\* (tool) => `- ${tool.name}: ${tool.description || 'No description available'}`
ToolLine(tool) ==
    LET name == Prop(tool, "name")
    IN IF ~name.ok THEN name
       ELSE LET description == Prop(tool, "description").v
            IN Ok(Str("- " \o ToStr(name.v) \o ": " \o
                      (IF Truthy(description) THEN ToStr(description)
                       ELSE "No description available")))

\* the catchError callback of sendMessageWithMCPContext (degraded and
\* minimal tier)
FallbackMessages(msgs, tools) ==
    IF Truthy(tools) /\ Truthy(Prop(tools, "tools").v)
       /\ Positive(Prop(Prop(tools, "tools").v, "length").v)
    THEN LET list == Prop(tools, "tools").v
         IN IF ~IsArray(list) THEN Throw(TypeError("mcpTools.tools.map is not a function"))
            ELSE LET lines == Mapped([i \in 1..Len(list.a) |-> ToolLine(list.a[i])])
                 IN IF ~lines.ok THEN lines
                    ELSE Ok(<<Message("system",
                                ToolsPromptHead
                                \o JoinStr([i \in 1..Len(lines.v) |-> lines.v[i].s], "\n")
                                \o ToolsPromptTail)>>
                            \o WithoutSystem(msgs))
    ELSE Ok(msgs)

\* getCompanies().pipe(map(...), catchError(...)): the messages handed to
\* switchMap, or the error the pipe ends with
EnhancedMessages(msgs, tools, companies) ==
    IF companies.ok
    THEN CatchError(RichMessages(msgs, createContext(companies.v)),
                    FallbackMessages(msgs, tools))
    ELSE FallbackMessages(msgs, tools)

----------------------------------------------------------------------------
(* Completion Gateway: sendMessage *)

\* the body posted to the completion endpoint
CompletionBody(msgs) ==
    [model |-> "gpt-3.5-turbo", messages |-> msgs, max_tokens |-> 1000,
     temperature |-> "0.7"]

\* FirstChoice returning the content of the last choice
FirstChoice_last(resp) ==
    LET choices == Prop(resp, "choices")
    IN IF ~choices.ok THEN choices
       ELSE IF Truthy(choices.v) /\ Positive(Prop(choices.v, "length").v)
       THEN LET message == Prop(choices.v.a[Len(choices.v.a)], "message")
            IN IF ~message.ok THEN message ELSE Prop(message.v, "content")
       ELSE Throw(Err("Error", "No response from OpenAI", Undef))

\* the map callback of sendMessage
FirstChoice(resp) ==
    LET choices == Prop(resp, "choices")
    IN IF ~choices.ok THEN choices
       ELSE IF Truthy(choices.v) /\ Positive(Prop(choices.v, "length").v)
       THEN LET message == Prop(First(choices.v), "message")
            IN IF ~message.ok THEN message ELSE Prop(message.v, "content")
       ELSE Throw(Err("Error", "No response from OpenAI", Undef))

\* http.post(...).pipe(map(...), catchError(rethrow)) of sendMessage
sendMessagePipe(resp) ==
    IF resp.ok THEN FirstChoice(resp.body) ELSE Throw(HttpError(resp))

\* SendMessageCall posting before the credential is looked at
SendMessageCall_postFirst(msgs) ==
    /\ openaiRequest' = CompletionBody(msgs)
    /\ posts' = [posts EXCEPT !.openai = @ + 1]
    /\ IF apiKey = ""
       THEN /\ result' = Throw(Err("Error", "OpenAI API key not set", Undef))
            /\ pc' = "done"
       ELSE /\ pc' = "openai"
            /\ UNCHANGED result

\* sendMessage(msgs): the credential check, then one POST
SendMessageCall(msgs) ==
    IF apiKey = ""
    THEN /\ result' = Throw(Err("Error", "OpenAI API key not set", Undef))
         /\ pc' = "done"
         /\ UNCHANGED <<openaiRequest, posts>>
    ELSE /\ openaiRequest' = CompletionBody(msgs)
         /\ posts' = [posts EXCEPT !.openai = @ + 1]
         /\ pc' = "openai"
         /\ UNCHANGED result

\* input conversations: message i has content "m<i>"
RECURSIVE Conversation(_, _)
\* the conversation with the given roles, numbered from n + 1
Conversation(roles, n) ==
    IF roles = <<>> THEN <<>>
    ELSE <<Message(roles[1], "m" \o ToString(n + 1))>> \o Conversation(Tail(roles), n + 1)
Conversations == {Conversation(roles, 0) : roles \in SeqsUpTo(Roles, MaxMessages)}

Tool(name, description) ==
    Obj(<< <<"name", Str(name)>>, <<"description", Str(description)>> >>)
ToolList(tools) == Obj(<< <<"tools", tools>> >>)
\* values of the argument mcpTools: absent, null, no tools field, empty list,
\* two tools (one without description), a null entry, tools not a list
ToolLists ==
    {Undef, Null, Obj(<<>>), ToolList(Arr(<<>>)),
     ToolList(Arr(<<Tool("getCompanies", "Get all companies"),
                    Obj(<< <<"name", Str("getChats")>> >>)>>)),
     ToolList(Arr(<<Null>>)),
     ToolList(Str("getCompanies"))}

sendMessage ==
    /\ pc = "idle"
    /\ \E msgs \in Conversations :
        /\ messages' = msgs
        /\ SendMessageCall(msgs)
    /\ op' = "sendMessage"
    /\ UNCHANGED <<appVars, localStorage, apiKey, clock, mcpTools, request, response, mcpResult, enhanced>>

\* sendMessageWithMCPContext(msgs, tools) up to the POST of getCompanies
sendMessageWithMCPContext ==
    /\ pc = "idle"
    /\ \E msgs \in Conversations, tools \in ToolLists :
        /\ messages' = msgs
        /\ mcpTools' = tools
    /\ op' = "sendMessageWithMCPContext"
    /\ request' = JsonRpcRequest("tools/call", ToolCallParams("getCompanies", Undef))
    /\ posts' = [posts EXCEPT !.mcp = @ + 1]
    /\ pc' = "mcp"
    /\ UNCHANGED <<appVars, localStorage, apiKey, clock, openaiRequest, response, mcpResult, enhanced, result>>

Frame(text) == <<"event: message", NL, DataPrefix, text>>
CompaniesResponses ==
    {HttpOk(Frame(d.text)) : d \in CompaniesFrameDocs}
    \cup {HttpOk(<<>>), HttpOk(Frame(BadJsonText))}
    \cup {HttpFail(s) : s \in FailStatuses}

\* the response to getCompanies arrives: map/catchError build the messages
\* and switchMap calls sendMessage with them
CompaniesResponse ==
    /\ pc = "mcp"
    /\ op = "sendMessageWithMCPContext"
    /\ \E resp \in CompaniesResponses :
        /\ response' = resp
        /\ mcpResult' = callMCPMethodPipe(resp)
    /\ enhanced' = EnhancedMessages(messages, mcpTools, mcpResult')
    /\ IF enhanced'.ok
       THEN SendMessageCall(enhanced'.v)
       ELSE /\ result' = enhanced'
            /\ pc' = "done"
            /\ UNCHANGED <<openaiRequest, posts>>
    /\ UNCHANGED <<appVars, localStorage, apiKey, clock, op, messages, mcpTools, request>>

Choice(content) ==
    Obj(<< <<"message", Obj(<< <<"content", Str(content)>>,
                               <<"role", Str("assistant")>> >>)>> >>)
Choices(list) == Obj(<< <<"choices", Arr(list)>> >>)
CompletionResponses ==
    {HttpOk(Choices(<<Choice("hi"), Choice("second")>>)),
     HttpOk(Choices(<<Choice("hi")>>)),
     HttpOk(Choices(<<>>)),
     HttpOk(Obj(<<>>))}
    \cup {HttpFail(s) : s \in FailStatuses}

\* the response of the completion endpoint arrives
CompletionResponse ==
    /\ pc = "openai"
    /\ \E resp \in CompletionResponses :
        /\ response' = resp
        /\ result' = sendMessagePipe(resp)
    /\ pc' = "done"
    /\ UNCHANGED <<appVars, localStorage, apiKey, clock, op, messages, mcpTools, request, openaiRequest,
                   posts, mcpResult, enhanced>>

NextEnrich ==
    sendMessage \/ sendMessageWithMCPContext \/ CompaniesResponse \/ CompletionResponse

InitEnrich == apiKey \in Keys /\ InitService

SpecEnrich == InitEnrich /\ [][NextEnrich]_vars

----------------------------------------------------------------------------
(* App: startup, user turns, handshakes (src/src/app/app.ts)               *)
(*                                                                         *)
(* Every asynchronous operation App has started is a record of calls: a    *)
(* user turn (the timer of sendMessage and the requests that follow it) or *)
(* a handshake (checkMCPHealth).  pending holds what the operation waits   *)
(* for; rpc and sent hold the requests it has posted.                      *)

RECURSIVE Trim(_)
\* s.trim(), for texts whose only white space is the blank
Trim(s) ==
    IF s = "" THEN ""
    ELSE IF SubSeq(s, 1, 1) = " " THEN Trim(SubSeq(s, 2, Len(s)))
    ELSE IF SubSeq(s, Len(s), Len(s)) = " " THEN Trim(SubSeq(s, 1, Len(s) - 1))
    ELSE s

Call(kind, text) ==
    [kind |-> kind,        \* "turn" or "checkMCPHealth"
     text |-> text,        \* userMessage of the turn, mcpUrl of the handshake
     pending |-> {},       \* outstanding: timer, initialize, tools/list, getCompanies, completion
     rpc |-> <<>>,         \* JSON-RPC requests posted to /api/mcp
     sent |-> <<>>,        \* bodies posted to the completion endpoint
     history |-> 0,        \* the array passed to sendMessageWithMCPContext
     tools |-> Undef,      \* mcpTools passed to sendMessageWithMCPContext
     reply |-> None,       \* the HTTP response received last
     outcome |-> None]     \* what the subscriber of the operation received

\* this.http.post('/api/mcp', request, ...) subscribed
PostMcp(c, name, req) ==
    [c EXCEPT !.pending = @ \cup {name}, !.rpc = Append(@, req)]
\* this.http.post(this.openaiApiUrl, body, ...) subscribed
PostCompletion(c, msgs) ==
    [c EXCEPT !.pending = @ \cup {"completion"}, !.sent = Append(@, CompletionBody(msgs))]
\* the awaited event has happened
Arrived(c, name) == [c EXCEPT !.pending = @ \ {name}]
\* the HTTP response resp to the request name has arrived
Received(c, name, resp) == [c EXCEPT !.pending = @ \ {name}, !.reply = resp]

Turns == {i \in 1..Len(calls) : calls[i].kind = "turn"}
Checks == {i \in 1..Len(calls) : calls[i].kind = "checkMCPHealth"}

\* ---- responses the servers give in SpecApp

AppToolsResponses ==
    {HttpOk(Frame(ResultDoc(ToolsListDoc).text)), HttpFail(0)}
AppCompaniesResponses ==
    {HttpOk(Frame(ResultDoc(ContentDoc(ListDoc(<<AcmeDoc>>).text)).text)),
     HttpFail(500)}
AppCompletionResponses ==
    {HttpOk(Choices(<<Choice("hi")>>)), HttpOk(Choices(<<>>)),
     HttpFail(401), HttpFail(429), HttpFail(500)}
\* the result of initialize is opaque to App
AppInitResponses ==
    {HttpOk(Frame(ResultDoc(ToolsDoc).text)), HttpOk(Frame(RemoteErrorDoc.text)),
     HttpOk(<<>>), HttpFail(404)}

\* ---- texts App shows

NoKeyNotice ==
    "Please configure your OpenAI API key first by clicking the settings button."
GenericErrorText == "Sorry, I encountered an error while processing your request."
InvalidKeyText == "Invalid API key. Please check your OpenAI API key configuration."
RateLimitText == "Rate limit exceeded. Please try again in a moment."

\* ErrorText without the branches on the status
ErrorText_generic(error) == GenericErrorText

\* errorMessage of handleAIError
ErrorText(error) ==
    IF Prop(error, "status").v = Num(401) THEN InvalidKeyText
    ELSE IF Prop(error, "status").v = Num(429) THEN RateLimitText
    ELSE GenericErrorText

ConfigSavedText(url) ==
    "Great! Your configuration has been saved. API key configured and MCP server set to "
    \o url \o ". I'm now ready to assist you with AI-powered responses. How can I help you today?"

InitializedText(mcpUrl) ==
    "MCP Server initialized successfully! Server at " \o mcpUrl \o " is ready for use."

\* errorMsg of the error callback of checkMCPHealth
InitFailedText(mcpUrl, error) ==
    "MCP Server initialization failed for " \o mcpUrl \o "." \o
    (IF Prop(error, "status").v = Num(404)
     THEN " Please check the proxy configuration and ensure the MCP server is running."
     ELSE IF Prop(error, "status").v = Num(406)
     THEN " Server returned 406 Not Acceptable. Please check the MCP server configuration."
     ELSE IF Prop(error, "status").v = Num(0)
     THEN " This might be due to CORS issues or the server being unavailable."
     ELSE " Error: " \o ToStr(Prop(error, "status").v) \o " "
          \o ToStr(Prop(error, "statusText").v))

ClearedText ==
    IF isApiKeyConfigured
    THEN "Conversation cleared. How can I help you today?"
    ELSE "Hello! I'm your AI assistant powered by OpenAI. Please configure your API key to start chatting. Click the settings button to get started!"

\* ---- callbacks of a turn; each sets calls, appMessages and arrays

\* handleAIResponse(response) for call i, whose record has become c; content
\* is the response
handleAIResponse(i, c, content) ==
    /\ arrays' = [arrays EXCEPT ![conversationHistory] =
                     Append(@, Message("assistant", content.s))]
    /\ appMessages' = Append(appMessages, Shown(content.s, FALSE))
    /\ calls' = [calls EXCEPT ![i] = [c EXCEPT !.outcome = Ok(content)]]

\* handleAIError showing nothing
handleAIError_silent(i, c, error) ==
    /\ calls' = [calls EXCEPT ![i] = [c EXCEPT !.outcome = Throw(error)]]
    /\ UNCHANGED <<appMessages, arrays>>

\* handleAIError(error)
handleAIError(i, c, error) ==
    /\ appMessages' = Append(appMessages, Shown(ErrorText(error), FALSE))
    /\ calls' = [calls EXCEPT ![i] = [c EXCEPT !.outcome = Throw(error)]]
    /\ UNCHANGED arrays

\* SubscribeSendMessage storing the messages it sends in the history
SubscribeSendMessage_inPlace(i, c, msgs) ==
    IF apiKey = ""
    THEN handleAIError(i, c, Err("Error", "OpenAI API key not set", Undef))
    ELSE /\ calls' = [calls EXCEPT ![i] = PostCompletion(c, msgs)]
         /\ arrays' = [arrays EXCEPT ![conversationHistory] = msgs]
         /\ UNCHANGED appMessages

\* openaiService.sendMessage(msgs).subscribe({next: handleAIResponse,
\* error: handleAIError}): without credential the error arrives at once
SubscribeSendMessage(i, c, msgs) ==
    IF apiKey = ""
    THEN handleAIError(i, c, Err("Error", "OpenAI API key not set", Undef))
    ELSE /\ calls' = [calls EXCEPT ![i] = PostCompletion(c, msgs)]
         /\ UNCHANGED <<appMessages, arrays>>

\* ToolsArrived posting the completion request together with getCompanies
ToolsArrived_parallel(i, c, r) ==
    IF r.ok
    THEN /\ mcpHealthStatus' = "Healthy"
         /\ calls' = [calls EXCEPT ![i] =
                PostCompletion(
                    PostMcp([c EXCEPT !.history = conversationHistory, !.tools = r.v],
                            "getCompanies",
                            JsonRpcRequest("tools/call", ToolCallParams("getCompanies", Undef))),
                    arrays[conversationHistory])]
         /\ UNCHANGED <<appMessages, arrays>>
    ELSE /\ mcpHealthStatus' = "Unavailable"
         /\ SubscribeSendMessage(i, c, arrays[conversationHistory])

\* the callbacks of getMCPTools().subscribe in proceedWithRegularAIResponse,
\* given the notification r
ToolsArrived(i, c, r) ==
    IF r.ok
    THEN /\ mcpHealthStatus' = "Healthy"
         /\ calls' = [calls EXCEPT ![i] =
                PostMcp([c EXCEPT !.history = conversationHistory, !.tools = r.v],
                        "getCompanies",
                        JsonRpcRequest("tools/call", ToolCallParams("getCompanies", Undef)))]
         /\ UNCHANGED <<appMessages, arrays>>
    ELSE /\ mcpHealthStatus' = "Unavailable"
         /\ SubscribeSendMessage(i, c, arrays[conversationHistory])

\* switchMap and the subscriber of sendMessageWithMCPContext, given what
\* map/catchError made of the getCompanies response
Enriched(i, c, enhancedMessages) ==
    IF enhancedMessages.ok
    THEN SubscribeSendMessage(i, c, enhancedMessages.v)
    ELSE handleAIError(i, c, enhancedMessages.v)

\* Completed sending the request once more after a failure
Completed_retry(i, c, r) ==
    IF r.ok THEN handleAIResponse(i, c, r.v)
    ELSE IF Len(c.sent) < 2
    THEN /\ calls' = [calls EXCEPT ![i] = PostCompletion(c, arrays[conversationHistory])]
         /\ UNCHANGED <<appMessages, arrays>>
    ELSE handleAIError(i, c, r.v)

\* the subscriber of the completion call, given the notification r
Completed(i, c, r) ==
    IF r.ok THEN handleAIResponse(i, c, r.v) ELSE handleAIError(i, c, r.v)

Initialized_alwaysHealthy(i, c, r) ==
    /\ mcpHealthStatus' = "Healthy"
    /\ appMessages' = Append(appMessages,
            Shown(IF r.ok THEN InitializedText(c.text) ELSE InitFailedText(c.text, r.v),
                  FALSE))
    /\ calls' = [calls EXCEPT ![i] = [c EXCEPT !.outcome = r]]
\* the callbacks of initializeMCP().subscribe in checkMCPHealth
Initialized(i, c, r) ==
    /\ mcpHealthStatus' = IF r.ok THEN "Healthy" ELSE "Unavailable"
    /\ appMessages' = Append(appMessages,
            Shown(IF r.ok THEN InitializedText(c.text) ELSE InitFailedText(c.text, r.v),
                  FALSE))
    /\ calls' = [calls EXCEPT ![i] = [c EXCEPT !.outcome = r]]

checkMCPHealth_statusKept(mcpUrl) ==
    /\ mcpHealthStatus' = mcpHealthStatus
    /\ calls' = Append(calls, PostMcp(Call("checkMCPHealth", mcpUrl), "initialize",
                                      InitRequest))
\* checkMCPHealth() up to the POST of initialize
checkMCPHealth(mcpUrl) ==
    /\ mcpHealthStatus' = "Checking..."
    /\ calls' = Append(calls, PostMcp(Call("checkMCPHealth", mcpUrl), "initialize",
                                      InitRequest))

\* ---- actions

ngOnInit ==
    /\ ~started
    /\ started' = TRUE
    /\ checkMCPHealth(mcpServerUrl)
    /\ UNCHANGED <<localStorage, apiKey, clock, callVars, isApiKeyConfigured, mcpServerUrl, arrays,
                   conversationHistory, appMessages>>

Urls == {"http://mcp.test"}

\* onConfigSaved refused while the server is marked unavailable
onConfigSaved_whileAvailable ==
    /\ started
    /\ mcpHealthStatus # "Unavailable"
    /\ \E key \in Keys \ {""}, url \in Urls :
        /\ updateConfig(Obj(<< <<"openaiApiKey", Str(key)>>, <<"mcpServerUrl", Str(url)>> >>))
        /\ appMessages' = Append(appMessages, Shown(ConfigSavedText(url), FALSE))
        /\ checkMCPHealth(url)
    /\ UNCHANGED <<clock, callVars, started, arrays, conversationHistory>>

\* ApiKeyConfigComponent.saveConfig with both fields filled in:
\* configService.updateConfig, then configSaved.emit -> App.onConfigSaved
onConfigSaved ==
    /\ started
    /\ \E key \in Keys \ {""}, url \in Urls :
        /\ updateConfig(Obj(<< <<"openaiApiKey", Str(key)>>, <<"mcpServerUrl", Str(url)>> >>))
        /\ appMessages' = Append(appMessages, Shown(ConfigSavedText(url), FALSE))
        /\ checkMCPHealth(url)
    /\ UNCHANGED <<clock, callVars, started, arrays, conversationHistory>>

\* what the user may have typed for turn n
Inputs(n) == {"", "  ", "q" \o ToString(n), " q" \o ToString(n) \o " "}

\* App.sendMessage(): the user message is shown and the timer is started
App_sendMessage ==
    /\ started
    /\ \E input \in Inputs(Cardinality(Turns) + 1) :
        IF Trim(input) = ""
        THEN UNCHANGED <<appMessages, calls>>
        ELSE /\ appMessages' = Append(appMessages, Shown(Trim(input), TRUE))
             /\ calls' = Append(calls, [Call("turn", Trim(input)) EXCEPT !.pending = {"timer"}])
    /\ UNCHANGED <<localStorage, apiKey, clock, callVars, isApiKeyConfigured, mcpServerUrl, started,
                   mcpHealthStatus, arrays, conversationHistory>>

\* addAIResponse recording the user message before it looks at the credential
addAIResponse_pushFirst(i) ==
    /\ i \in Turns
    /\ "timer" \in calls[i].pending
    /\ arrays' = [arrays EXCEPT ![conversationHistory] =
                     Append(@, Message("user", calls[i].text))]
    /\ IF ~isApiKeyConfigured
       THEN /\ appMessages' = Append(appMessages, Shown(NoKeyNotice, FALSE))
            /\ calls' = [calls EXCEPT ![i] = Arrived(calls[i], "timer")]
       ELSE /\ calls' = [calls EXCEPT ![i] =
                   PostMcp(Arrived(calls[i], "timer"), "tools/list",
                           JsonRpcRequest("tools/list", Undef))]
            /\ UNCHANGED appMessages
    /\ UNCHANGED <<localStorage, apiKey, clock, callVars, isApiKeyConfigured, mcpServerUrl, started,
                   mcpHealthStatus, conversationHistory>>

\* the timer fires: addAIResponse(userMessage) and, with a credential,
\* proceedWithRegularAIResponse() up to the POST of tools/list
addAIResponse(i) ==
    /\ i \in Turns
    /\ "timer" \in calls[i].pending
    /\ IF ~isApiKeyConfigured
       THEN /\ appMessages' = Append(appMessages, Shown(NoKeyNotice, FALSE))
            /\ calls' = [calls EXCEPT ![i] = Arrived(calls[i], "timer")]
            /\ UNCHANGED arrays
       ELSE /\ arrays' = [arrays EXCEPT ![conversationHistory] =
                            Append(@, Message("user", calls[i].text))]
            /\ calls' = [calls EXCEPT ![i] =
                   PostMcp(Arrived(calls[i], "timer"), "tools/list",
                           JsonRpcRequest("tools/list", Undef))]
            /\ UNCHANGED appMessages
    /\ UNCHANGED <<localStorage, apiKey, clock, callVars, isApiKeyConfigured, mcpServerUrl, started,
                   mcpHealthStatus, conversationHistory>>

\* the response to tools/list arrives
ToolsListResponse(i) ==
    /\ i \in Turns
    /\ "tools/list" \in calls[i].pending
    /\ \E resp \in AppToolsResponses :
        ToolsArrived(i, Received(calls[i], "tools/list", resp), callMCPMethodPipe(resp))
    /\ UNCHANGED <<localStorage, apiKey, clock, callVars, isApiKeyConfigured, mcpServerUrl, started,
                   conversationHistory>>

\* the response to getCompanies arrives; the map callback reads the array
\* it was given as it is now
GetCompaniesResponse(i) ==
    /\ i \in Turns
    /\ "getCompanies" \in calls[i].pending
    /\ \E resp \in AppCompaniesResponses :
        Enriched(i, Received(calls[i], "getCompanies", resp),
                 EnhancedMessages(arrays[calls[i].history], calls[i].tools,
                                  callMCPMethodPipe(resp)))
    /\ UNCHANGED <<localStorage, apiKey, clock, callVars, isApiKeyConfigured, mcpServerUrl, started,
                   mcpHealthStatus, conversationHistory>>

\* the response of the completion endpoint arrives
ChatCompletionResponse(i) ==
    /\ i \in Turns
    /\ "completion" \in calls[i].pending
    /\ \E resp \in AppCompletionResponses :
        Completed(i, Received(calls[i], "completion", resp), sendMessagePipe(resp))
    /\ UNCHANGED <<localStorage, apiKey, clock, callVars, isApiKeyConfigured, mcpServerUrl, started,
                   mcpHealthStatus, conversationHistory>>

\* the response to initialize arrives
InitializeResponse(i) ==
    /\ i \in Checks
    /\ "initialize" \in calls[i].pending
    /\ \E resp \in AppInitResponses :
        Initialized(i, Received(calls[i], "initialize", resp), initializeMCPPipe(resp))
    /\ UNCHANGED <<localStorage, apiKey, clock, callVars, isApiKeyConfigured, mcpServerUrl, started,
                   arrays, conversationHistory>>

\* clearConversation(): a fresh array replaces the history
clearConversation ==
    /\ started
    /\ appMessages' = <<Shown(ClearedText, FALSE)>>
    /\ arrays' = Append(arrays, <<>>)
    /\ conversationHistory' = Len(arrays) + 1
    /\ UNCHANGED <<localStorage, apiKey, clock, callVars, isApiKeyConfigured, mcpServerUrl, started,
                   mcpHealthStatus, calls>>

\* clearConfig putting the session state back to its initial value
clearConfig_resetsStatus ==
    /\ started
    /\ \E removeItemThrows \in BOOLEAN :
        IF removeItemThrows
        THEN UNCHANGED <<localStorage, apiKey, isApiKeyConfigured, mcpServerUrl,
                         mcpHealthStatus>>
        ELSE /\ localStorage' = NoItem
             /\ resetToDefaults
             /\ mcpHealthStatus' = "Unknown"
    /\ UNCHANGED <<clock, callVars, started, arrays,
                   conversationHistory, appMessages, calls>>

\* ConfigService.clearConfig() while App runs
clearConfig ==
    /\ started
    /\ ConfigService_clearConfig
    /\ UNCHANGED <<clock, callVars, started, mcpHealthStatus, arrays,
                   conversationHistory, appMessages, calls>>

\* an event of call i
CallStep(i) ==
    \/ addAIResponse(i)
    \/ ToolsListResponse(i)
    \/ GetCompaniesResponse(i)
    \/ ChatCompletionResponse(i)
    \/ InitializeResponse(i)

\* operations started by the user so far: each message sent and each
\* configuration saved has a record in calls (where ngOnInit has one too),
\* each clearing of the conversation an array
UserEvents == Len(calls) + Len(arrays) - (IF started THEN 2 ELSE 1)

NextApp ==
    \/ ngOnInit
    \/ (UserEvents < MaxEvents /\ onConfigSaved)
    \/ (UserEvents < MaxEvents /\ App_sendMessage)
    \/ (UserEvents < MaxEvents /\ clearConversation)
    \/ clearConfig
    \/ \E i \in 1..(MaxEvents + 1) : CallStep(i)

InitAppSpec == apiKey \in Keys /\ clock = 0 /\ InitService

SpecApp == InitAppSpec /\ [][NextApp]_vars

\* every timer fires and every issued HTTP request completes.  For the
\* getCompanies request the condition is written out: GetCompaniesResponse(i)
\* is enabled exactly while that request is outstanding and a call issues it
\* once, so weak fairness of the action says that the request does not stay
\* outstanding for ever.
FairApp ==
    \A i \in 1..(MaxEvents + 1) :
        /\ WF_vars(addAIResponse(i))
        /\ WF_vars(ToolsListResponse(i))
        /\ WF_vars(ChatCompletionResponse(i))
        /\ WF_vars(InitializeResponse(i))
        /\ []<>~(i \in Turns /\ "getCompanies" \in calls[i].pending)

\* the session without the clearing operations, where every timer fires and
\* every issued HTTP request completes
NextSession ==
    \/ ngOnInit
    \/ (UserEvents < MaxEvents /\ onConfigSaved)
    \/ (UserEvents < MaxEvents /\ App_sendMessage)
    \/ \E i \in 1..(MaxEvents + 1) : CallStep(i)

SpecAppFair == InitAppSpec /\ [][NextSession]_vars /\ FairApp

----------------
(* Properties of frame decoding (SpecRpc).  The frame is described here on  *)
(* the token positions of the body, not through Split and FindDataLine.     *)

RpcOps == {"callMCPMethod", "getMCPTools", "callMCPTool", "initializeMCP"}
RpcDone == pc = "done" /\ op \in RpcOps

\* position i of body b holds a "data: " token at the start of a line
DataAt(b, i) == i \in 1..Len(b) /\ b[i] = DataPrefix /\ (i = 1 \/ b[i - 1] = NL)
FirstDataAt(b, i) == DataAt(b, i) /\ \A j \in 1..(i - 1) : ~DataAt(b, j)
\* the rest of the line that starts at i is exactly the text of d
CarriesAt(b, i, d) ==
    /\ i + 1 <= Len(b)
    /\ b[i + 1] = d.text
    /\ (i + 2 > Len(b) \/ b[i + 2] = NL)
FrameCarries(b, d) == \E i \in 1..Len(b) : FirstDataAt(b, i) /\ CarriesAt(b, i, d)
HasDataLine(b) == \E i \in 1..Len(b) : DataAt(b, i)
MalformedFrame(b) ==
    \E i \in 1..Len(b) : FirstDataAt(b, i) /\ \A d \in FrameDocs : ~CarriesAt(b, i, d)

HasField(v, k) == v.t = "object" /\ HasKey(v.o, k)
FieldOr(v, k, default) == IF HasField(v, k) THEN ValueOf(v.o, k) ELSE default
FalsyValues == {Null, Undef, Num(0), Str("")}
ErrorPrefix == IF op = "initializeMCP" THEN "MCP Initialization Error: " ELSE "MCP Error: "
\* the text a template literal gives for the message of a remote error
RemoteMessage(d) ==
    LET m == FieldOr(ValueOf(d.value.o, "error"), "message", Undef)
    IN IF m.t = "string" THEN m.s ELSE "undefined"

\* C7 as stated: every first data line holding valid JSON without an error
\* field makes the call return that value's result field.
C7_AnyJsonWithoutError ==
    RpcDone /\ response.ok =>
        \A d \in FrameDocs :
            FrameCarries(response.body, d) /\ ~HasField(d.value, "error")
                => mcpResult = Ok(FieldOr(d.value, "result", Undef))

\* C7 (amended): when the first line starting with "data: " holds valid JSON
\* other than null and without an error field, the call returns exactly that
\* value's result field (undefined when absent), whatever lines precede it
\* and whatever data lines follow.
C7_FrameSuccess ==
    RpcDone /\ response.ok =>
        \A d \in FrameDocs :
            /\ FrameCarries(response.body, d)
            /\ ~HasField(d.value, "error")
            /\ d.value # Null
            => /\ mcpResult = Ok(FieldOr(d.value, "result", Undef))
               /\ result = mcpResult

C7_Witness ==
    /\ RpcDone
    /\ response.ok
    /\ response.body = <<"event: message", NL, DataPrefix, ResultDoc(ToolsDoc).text>>
    /\ mcpResult = Ok(ToolsDoc.value)

\* C8 as stated: an error field, whatever its value, makes the call fail.
C8_AnyErrorFieldFails ==
    RpcDone /\ response.ok =>
        \A d \in FrameDocs :
            FrameCarries(response.body, d) /\ HasField(d.value, "error")
                => ~mcpResult.ok

\* C8 (amended): an error field with a truthy value on the first data line
\* makes the call fail with an Error whose message is the prefix followed by
\* the error's message field, also when a result field is present, and no
\* success payload is delivered; an error field with a falsy value (null) is
\* ignored and the result field is returned.
C8_RemoteError ==
    RpcDone /\ response.ok =>
        \A d \in FrameDocs :
            FrameCarries(response.body, d) /\ HasField(d.value, "error") =>
                IF ValueOf(d.value.o, "error") \in FalsyValues
                THEN mcpResult = Ok(FieldOr(d.value, "result", Undef))
                ELSE /\ mcpResult =
                          Throw(Err("Error", ErrorPrefix \o RemoteMessage(d), Undef))
                     /\ result = mcpResult

C8_Witness ==
    /\ RpcDone
    /\ response.ok
    /\ FrameCarries(response.body, ErrorAndResultDoc)
    /\ mcpResult = Throw(Err("Error", "MCP Error: boom", Undef))

\* what a subscriber can tell from the error value alone
ErrorClass(e) ==
    IF e.status # Undef THEN "transport"
    ELSE IF e.name = "SyntaxError" THEN "malformed"
    ELSE IF e.name = "TypeError" THEN "type"
    ELSE IF e.message = "Invalid SSE response format" THEN "missing"
    ELSE "remote"

\* what happened on the wire
FrameCause(resp) ==
    IF ~resp.ok THEN "transport"
    ELSE IF ~HasDataLine(resp.body) THEN "missing"
    ELSE IF MalformedFrame(resp.body) THEN "malformed"
    ELSE IF \E d \in FrameDocs : /\ FrameCarries(resp.body, d)
                                 /\ HasField(d.value, "error")
                                 /\ ValueOf(d.value.o, "error") \notin FalsyValues
    THEN "remote"
    ELSE "other"

\* C9: a body without a line starting with "data: " fails the call with the
\* missing-data-line error, a data line that is not valid JSON fails it with
\* a JSON syntax error; no result is delivered, and the error value tells
\* these two apart from each other, from a transport failure and from a
\* remote protocol error.
C9_FramingErrors ==
    RpcDone =>
        LET cause == FrameCause(response)
        IN /\ cause = "missing" =>
                mcpResult = Throw(Err("Error", "Invalid SSE response format", Undef))
           /\ cause = "malformed" =>
                ~mcpResult.ok /\ mcpResult.v.name = "SyntaxError"
           /\ cause \in {"missing", "malformed", "transport", "remote"} =>
                /\ ~mcpResult.ok
                /\ result = mcpResult
                /\ ErrorClass(mcpResult.v) = cause
           /\ cause = "transport" => mcpResult.v.status = Num(response.status)

C9_Witness ==
    /\ RpcDone
    /\ response.ok
    /\ response.body = <<DataPrefix, BadJsonText, NL, "event: message">>
    /\ ~mcpResult.ok
    /\ mcpResult.v.name = "SyntaxError"

----------------------------------------------------------------------------
(* Properties of the Context Composer and the Completion Gateway            *)
(* (SpecEnrich)                                                             *)

\* the getCompanies response has been processed by map/catchError
EnrichDone == op = "sendMessageWithMCPContext" /\ pc \in {"openai", "done"}

RECURSIVE UserAssistant(_)
\* the user and assistant messages of a conversation, in order
UserAssistant(msgs) ==
    IF msgs = <<>> THEN <<>>
    ELSE IF Head(msgs).role \in {"user", "assistant"}
    THEN <<Head(msgs)>> \o UserAssistant(Tail(msgs))
    ELSE UserAssistant(Tail(msgs))

SystemPositions(msgs) == {i \in 1..Len(msgs) : msgs[i].role = "system"}
IsRichMessage(m) == m.role = "system" /\ StartsWith(m.content, RichPromptHead)
IsToolsMessage(m) == m.role = "system" /\ StartsWith(m.content, ToolsPromptHead)
RichMessage(context) == Message("system", RichPromptHead \o context \o RichPromptTail)
\* the caller supplied a tool list with at least one entry
SuppliedTools(tools) ==
    /\ HasField(tools, "tools")
    /\ ValueOf(tools.o, "tools").t = "array"
    /\ ValueOf(tools.o, "tools").a # <<>>

\* C1: enrich never fails: whatever the conversation, the outcome of the
\* getCompanies call and the supplied tool list (absent, empty, malformed),
\* it produces a conversation and raises no error.
C1_EnrichNeverFails == EnrichDone => enhanced.ok

\* C2: in every tier the conversation enrich passes on holds at most one
\* system message, and no system message of the input survives.
C2_AtMostOneSystem ==
    EnrichDone /\ enhanced.ok =>
        /\ Cardinality(SystemPositions(enhanced.v)) <= 1
        /\ \A i \in SystemPositions(enhanced.v) :
             \A j \in 1..Len(messages) : enhanced.v[i] # messages[j]

\* C3: the sequence handed to sendMessage is zero or one system message at
\* the first position followed by exactly the user and assistant messages of
\* the input, in order; no system message after the first position.
C3_OrderPreserved ==
    EnrichDone /\ enhanced.ok =>
        LET out == enhanced.v
        IN /\ \A i \in SystemPositions(out) : i = 1
           /\ UserAssistant(out) = UserAssistant(messages)
           /\ Len(out) = Len(UserAssistant(messages)) + Cardinality(SystemPositions(out))
           /\ pc = "openai" => openaiRequest.messages = out

\* C4: tier selection: a successful getCompanies call gives the rich system
\* message; a failed call with a non-empty tool list gives the message
\* listing the tools; a failed call without tools injects no system message;
\* nothing else happens.
C4_TierSelection ==
    EnrichDone =>
        /\ mcpResult.ok =>
             enhanced.ok /\ enhanced.v # <<>> /\ IsRichMessage(enhanced.v[1])
        /\ ~mcpResult.ok /\ SuppliedTools(mcpTools) =>
             enhanced.ok /\ enhanced.v # <<>> /\ IsToolsMessage(enhanced.v[1])
        /\ ~mcpResult.ok /\ ~SuppliedTools(mcpTools) =>
             /\ enhanced.ok
             /\ \A i \in 1..Len(enhanced.v) :
                  ~IsRichMessage(enhanced.v[i]) /\ ~IsToolsMessage(enhanced.v[i])

\* the payload has a content list whose first element carries the text s
ContentText(p, s) ==
    /\ HasField(p, "content")
    /\ ValueOf(p.o, "content").t = "array"
    /\ ValueOf(p.o, "content").a # <<>>
    /\ HasField(ValueOf(p.o, "content").a[1], "text")
    /\ ValueOf(ValueOf(p.o, "content").a[1].o, "text") = Str(s)
\* the first content element carries a text that is not JSON
UnparseableContent(p) ==
    /\ ContentText(p, InnerBadText)
    /\ \A d \in JsonDocs : d.text # InnerBadText

\* C5 as stated: an unparseable content text makes enrich leave the rich tier.
C5_ParseFailureFallsBack ==
    EnrichDone /\ mcpResult.ok /\ UnparseableContent(mcpResult.v) =>
        /\ enhanced.ok
        /\ \A i \in 1..Len(enhanced.v) : ~IsRichMessage(enhanced.v[i])

\* C5 (amended): when the getCompanies payload has a content list whose
\* first element carries a text that is not parseable as JSON, enrich stays
\* in the rich tier: the system message is the rich message with the literal
\* "Error parsing company data." as its context block, whatever tool list
\* was supplied; no fallback to the degraded or minimal tier happens.
C5_ParseFailureStaysRich ==
    EnrichDone /\ mcpResult.ok /\ UnparseableContent(mcpResult.v) =>
        enhanced = Ok(<<RichMessage("Error parsing company data.")>>
                      \o UserAssistant(messages))

C5_Witness ==
    /\ EnrichDone
    /\ mcpResult.ok
    /\ UnparseableContent(mcpResult.v)
    /\ SuppliedTools(mcpTools)
    /\ enhanced.ok
    /\ IsRichMessage(enhanced.v[1])

\* payloads the normalization turns into an empty record list
EmptyRecordList(p) ==
    \/ p \in {Arr(<<>>), Null, Undef}
    \/ p.t \in {"string", "number"}
    \/ ~HasField(p, "content") /\ HasField(p, "companies")
       /\ ValueOf(p.o, "companies") = Arr(<<>>)
    \/ ContentText(p, "[]")
    \/ ContentText(p, "{\"companies\":[]}")

\* C6: a successful getCompanies call whose payload normalizes to an empty
\* record list keeps enrich in the rich tier, with the placeholder "No
\* company data available." as the context block of the system message.
C6_EmptyListPlaceholder ==
    EnrichDone /\ mcpResult.ok /\ EmptyRecordList(mcpResult.v) =>
        enhanced = Ok(<<RichMessage("No company data available.")>>
                      \o UserAssistant(messages))

C6_Witness ==
    /\ EnrichDone
    /\ mcpResult = Ok(Null)
    /\ SuppliedTools(mcpTools)
    /\ messages # <<>>
    /\ enhanced.ok
    /\ enhanced.v[1] = RichMessage("No company data available.")

\* sendMessage has been called, directly or by switchMap
SendMessageCalled == op = "sendMessage" \/ (EnrichDone /\ enhanced.ok)

\* C10: sendMessage with an empty credential fails with the missing
\* credential error and posts nothing to the completion endpoint.
C10_NoCredentialNoRequest ==
    apiKey = "" =>
        /\ posts.openai = 0
        /\ openaiRequest = NoRequest
        /\ pc # "openai"
        /\ SendMessageCalled =>
             /\ pc = "done"
             /\ result = Throw(Err("Error", "OpenAI API key not set", Undef))

C10_Witness ==
    /\ apiKey = ""
    /\ op = "sendMessage"
    /\ messages # <<>>
    /\ pc = "done"
    /\ result = Throw(Err("Error", "OpenAI API key not set", Undef))
    /\ posts.openai = 0

\* the response of the completion endpoint has arrived
CompletionDone == pc = "done" /\ posts.openai = 1
\* the choices of a response body, empty when the field is absent
ChoiceList(body) ==
    IF HasField(body, "choices") /\ ValueOf(body.o, "choices").t = "array"
    THEN ValueOf(body.o, "choices").a
    ELSE <<>>
ContentOf(choice) == ValueOf(ValueOf(choice.o, "message").o, "content")

\* C11: on a successful transport response sendMessage returns the content
\* of the first choice when there is one, never that of a later choice, and
\* fails with "No response from OpenAI" when choices is empty or absent.
C11_FirstChoice ==
    CompletionDone /\ response.ok =>
        IF ChoiceList(response.body) # <<>>
        THEN result = Ok(ContentOf(ChoiceList(response.body)[1]))
        ELSE result = Throw(Err("Error", "No response from OpenAI", Undef))

C11_Witness ==
    /\ CompletionDone
    /\ response.ok
    /\ Len(ChoiceList(response.body)) = 2
    /\ ContentOf(ChoiceList(response.body)[2]) # ContentOf(ChoiceList(response.body)[1])
    /\ result = Ok(Str("hi"))

----------------------------------------------------------------------------
(* Properties of the session state and of user turns (SpecApp) *)

\* call i takes its last step: what it waited for arrives and nothing new
\* is awaited
HandshakeEnds(i) ==
    /\ i \in Checks
    /\ "initialize" \in calls[i].pending
    /\ "initialize" \notin calls'[i].pending
\* the frame of a 2xx response carries a JSON-RPC result and no error
DecodesResult(resp) ==
    /\ resp.ok
    /\ \E d \in JsonDocs :
        /\ FrameCarries(resp.body, d)
        /\ HasField(d.value, "result")
        /\ ~HasField(d.value, "error")
TransportFailure(resp) == ~resp.ok
\* no line starts with "data: ", or the first such line holds no JSON text
FramingFailure(resp) ==
    /\ resp.ok
    /\ \/ ~HasDataLine(resp.body)
       \/ \E i \in 1..Len(resp.body) :
            FirstDataAt(resp.body, i) /\ \A d \in JsonDocs : ~CarriesAt(resp.body, i, d)
RemoteFailure(resp) ==
    /\ resp.ok
    /\ \E d \in JsonDocs :
        /\ FrameCarries(resp.body, d)
        /\ HasField(d.value, "error")
        /\ ValueOf(d.value.o, "error") \notin FalsyValues
LastShown == appMessages[Len(appMessages)]

\* C12: the step that ends a handshake sets mcpHealthStatus by the outcome
\* of that handshake: Healthy when the response decodes to a result,
\* Unavailable on a transport, framing or remote error; on failure the
\* error callback of the caller receives the error and shows it.
C12_HandshakeOutcome ==
    [][\A i \in 1..Len(calls) : HandshakeEnds(i) =>
        /\ DecodesResult(calls'[i].reply) =>
              /\ mcpHealthStatus' = "Healthy"
              /\ calls'[i].outcome.ok
        /\ \/ TransportFailure(calls'[i].reply)
           \/ FramingFailure(calls'[i].reply)
           \/ RemoteFailure(calls'[i].reply)
           => /\ mcpHealthStatus' = "Unavailable"
              /\ ~calls'[i].outcome.ok
              /\ appMessages' = Append(appMessages,
                     Shown(InitFailedText(calls[i].text, calls'[i].outcome.v), FALSE))
              /\ TransportFailure(calls'[i].reply) =>
                     Prop(calls'[i].outcome.v, "status").v = Num(calls'[i].reply.status)
        /\ DecodesResult(calls'[i].reply) \/ TransportFailure(calls'[i].reply)
              \/ FramingFailure(calls'[i].reply) \/ RemoteFailure(calls'[i].reply)]_vars

\* a handshake has failed on a remote error after another one succeeded
C12_Witness ==
    \E i, j \in Checks :
        /\ i < j
        /\ calls[i].pending = {} /\ calls[i].outcome.ok
        /\ calls[j].pending = {} /\ RemoteFailure(calls[j].reply)
        /\ ~calls[j].outcome.ok
        /\ mcpHealthStatus = "Unavailable"
        /\ LastShown = Shown(InitFailedText(calls[j].text, calls[j].outcome.v), FALSE)

\* a handshake is started in this step: its record is new in calls
HandshakeStarts(i) ==
    /\ i \in (1..Len(calls')) \ (1..Len(calls))
    /\ calls'[i].kind = "checkMCPHealth"
Settled == mcpHealthStatus \in {"Healthy", "Unavailable"}

\* C13: every step that issues an initialize request sets mcpHealthStatus to
\* 'Checking...', and when every issued request completes, every state with
\* 'Checking...' is followed by one with 'Healthy' or 'Unavailable'.
C13_CheckingTransient ==
    /\ [][\A i \in 1..(Len(calls) + 1) : HandshakeStarts(i) =>
            /\ mcpHealthStatus' = "Checking..."
            /\ calls'[i].pending = {"initialize"}
            /\ Len(calls'[i].rpc) = 1
            /\ calls'[i].rpc[1].method = "initialize"]_vars
    /\ (mcpHealthStatus = "Checking...") ~> Settled

\* a second handshake has put the status back to 'Checking...' after the
\* first one ended
C13_Witness ==
    \E i, j \in Checks :
        /\ i < j
        /\ calls[i].pending = {}
        /\ calls[i].outcome # None
        /\ "initialize" \in calls[j].pending
        /\ mcpHealthStatus = "Checking..."

\* a request of call i completes in this step
RequestCompletes(i) ==
    /\ i \in 1..Len(calls)
    /\ \E name \in {"initialize", "tools/list", "getCompanies", "completion"} :
        /\ name \in calls[i].pending
        /\ name \notin calls'[i].pending

\* C14: mcpHealthStatus leaves 'Unknown' only for 'Checking...', in the
\* startup handshake and before any turn exists; it never returns to
\* 'Unknown'; it becomes 'Healthy' or 'Unavailable' only in a step in which
\* a request completes.
C14_StatusMachine ==
    [][/\ mcpHealthStatus' \in {"Unknown", "Checking...", "Healthy", "Unavailable"}
       /\ mcpHealthStatus = "Unknown" /\ mcpHealthStatus' # "Unknown" =>
            /\ mcpHealthStatus' = "Checking..."
            /\ ~started /\ started'
            /\ calls = <<>>
            /\ HandshakeStarts(1)
       /\ mcpHealthStatus # "Unknown" => mcpHealthStatus' # "Unknown"
       /\ started => mcpHealthStatus # "Unknown"
       /\ mcpHealthStatus' \in {"Healthy", "Unavailable"}
             /\ mcpHealthStatus' # mcpHealthStatus
          => \E i \in 1..Len(calls) : RequestCompletes(i)]_vars

\* a turn whose tools/list call failed has set 'Unavailable' after the
\* startup handshake had succeeded
C14_Witness ==
    \E i \in Checks, j \in Turns :
        /\ calls[i].pending = {} /\ calls[i].outcome.ok
        /\ Len(calls[j].rpc) = 1
        /\ "tools/list" \notin calls[j].pending
        /\ "completion" \in calls[j].pending
        /\ Cardinality(Checks) = 1
        /\ mcpHealthStatus = "Unavailable"

\* the timer of turn i fires in this step
TimerFires(i) ==
    /\ i \in Turns
    /\ "timer" \in calls[i].pending
    /\ "timer" \notin calls'[i].pending
\* an initialize or tools/list request of call i completes in this step
StatusCallCompletes(i) ==
    /\ i \in 1..Len(calls)
    /\ \E name \in {"initialize", "tools/list"} :
        /\ name \in calls[i].pending
        /\ name \notin calls'[i].pending

\* C15: no value of mcpHealthStatus blocks anything: once started, a
\* configuration can be saved (which starts a handshake) and a message
\* sent in every state, a turn whose timer fires with a credential issues
\* tools/list, and whatever the status was, a completed initialize or
\* tools/list call sets 'Healthy' on success and 'Unavailable' on failure.
C15_NoTerminalState ==
    /\ [](started =>
            /\ ENABLED (onConfigSaved /\ Len(calls') > Len(calls))
            /\ ENABLED (App_sendMessage /\ Len(calls') > Len(calls)))
    /\ [][\A i \in 1..Len(calls) :
            /\ TimerFires(i) /\ isApiKeyConfigured =>
                    /\ calls'[i].pending = {"tools/list"}
                    /\ Len(calls'[i].rpc) = 1
                    /\ calls'[i].rpc[1].method = "tools/list"
            /\ StatusCallCompletes(i) =>
                    mcpHealthStatus' = IF DecodesResult(calls'[i].reply)
                                       THEN "Healthy" ELSE "Unavailable"]_vars

\* the startup handshake failed; the turn started after that has got its
\* tool list, which set 'Healthy'
C15_Witness ==
    \E i \in Checks, j \in Turns :
        /\ calls[i].pending = {} /\ ~calls[i].outcome.ok
        /\ appMessages = <<Welcome,
                           Shown(InitFailedText(calls[i].text, calls[i].outcome.v), FALSE),
                           Shown(calls[j].text, TRUE)>>
        /\ "getCompanies" \in calls[j].pending
        /\ mcpHealthStatus = "Healthy"

McpRequests == {"tools/list", "getCompanies"}

\* C16: a turn never has two requests outstanding; while its completion
\* request is outstanding, and ever after it was issued, no tool call of the
\* turn is outstanding; the completion request is posted in the step in
\* which the last tool call of the turn completes, and no tool call is
\* posted after it.
C16_Sequential ==
    /\ [](\A i \in Turns :
            /\ Cardinality(calls[i].pending) <= 1
            /\ Len(calls[i].sent) > 0 =>
                    /\ calls[i].pending \cap McpRequests = {}
                    /\ Len(calls[i].rpc) >= 1
                    /\ calls[i].rpc[1].method = "tools/list")
    /\ [][\A i \in Turns :
            /\ Len(calls'[i].sent) > Len(calls[i].sent) =>
                    /\ calls[i].pending \subseteq McpRequests
                    /\ calls[i].pending # {}
                    /\ calls'[i].pending = {"completion"}
            /\ Len(calls[i].sent) > 0 => calls'[i].rpc = calls[i].rpc]_vars

\* the completion request of a turn is outstanding after its tools/list and
\* getCompanies calls have completed
C16_Witness ==
    \E i \in Turns :
        /\ Len(calls[i].rpc) = 2
        /\ calls[i].rpc[2].method = "tools/call"
        /\ Len(calls[i].sent) = 1
        /\ calls[i].pending = {"completion"}
        /\ calls[i].reply.ok

\* the requests of call i to /api/mcp with the given method
RpcCount(i, method) ==
    Cardinality({k \in 1..Len(calls[i].rpc) : calls[i].rpc[k].method = method})

C18_AlwaysEnriches ==
    \A i \in Turns :
        Len(calls[i].sent) > 0 => RpcCount(i, "tools/call") = 1

\* the completion request of turn i completes in this step
CompletionEnds(i) ==
    /\ i \in Turns
    /\ "completion" \in calls[i].pending
    /\ "completion" \notin calls'[i].pending
\* turn i reaches the completion call in this step, and no credential is set
CredentialMissing(i) ==
    /\ i \in Turns
    /\ calls[i].pending \cap McpRequests # {}
    /\ calls'[i].pending \cap McpRequests = {}
    /\ apiKey = ""
\* turn i ends in this step with the text shown and no change of any
\* conversation array
FailsWith(i, text) ==
    /\ appMessages' = Append(appMessages, Shown(text, FALSE))
    /\ arrays' = arrays
    /\ calls'[i].pending = {}
    /\ ~calls'[i].outcome.ok

\* C19: every failure of the completion call ends the turn with one message
\* shown: the invalid-key text for status 401, the rate-limit text for
\* status 429, the generic text for any other status, for a response
\* without choices and for a missing credential (where no request is sent);
\* the error reaches the subscriber and no conversation array changes.
C19_CompletionErrors ==
    [][\A i \in 1..Len(calls) :
        /\ CompletionEnds(i) /\ ~calls'[i].reply.ok =>
              /\ FailsWith(i, IF calls'[i].reply.status = 401 THEN InvalidKeyText
                              ELSE IF calls'[i].reply.status = 429 THEN RateLimitText
                              ELSE GenericErrorText)
              /\ Prop(calls'[i].outcome.v, "status").v = Num(calls'[i].reply.status)
        /\ CompletionEnds(i) /\ calls'[i].reply.ok
                /\ ChoiceList(calls'[i].reply.body) = <<>> =>
              /\ FailsWith(i, GenericErrorText)
              /\ calls'[i].outcome = Throw(Err("Error", "No response from OpenAI", Undef))
        /\ CredentialMissing(i) =>
              /\ FailsWith(i, GenericErrorText)
              /\ calls'[i].outcome = Throw(Err("Error", "OpenAI API key not set", Undef))
              /\ calls'[i].sent = <<>>]_vars

\* a turn has ended on the status 401 of the completion endpoint
C19_Witness ==
    \E i \in Turns :
        /\ calls[i].pending = {}
        /\ Len(calls[i].sent) = 1
        /\ calls[i].reply = HttpFail(401)
        /\ LastShown = Shown(InvalidKeyText, FALSE)
        /\ arrays[conversationHistory] = <<Message("user", calls[i].text)>>

----------------------------------------------------------------------------
(* Properties of the rendering of company records (SpecEnrich).  The text  *)
(* is described here from the records, not through CompanyBlock.           *)

RECURSIVE Separated(_, _)
\* the texts in their order, with sep between two neighbours
Separated(texts, sep) ==
    IF texts = <<>> THEN ""
    ELSE IF Len(texts) = 1 THEN texts[1]
    ELSE texts[1] \o sep \o Separated(Tail(texts), sep)

\* the text of a field that holds a string; a template literal prints an
\* absent field as undefined
TextOf(rec, k) ==
    IF HasField(rec, k) /\ ValueOf(rec.o, k).t = "string"
    THEN ValueOf(rec.o, k).s ELSE "undefined"
ListOf(rec, k) ==
    IF HasField(rec, k) /\ ValueOf(rec.o, k).t = "array" THEN ValueOf(rec.o, k).a ELSE <<>>
StringOrAbsent(rec, k) == ~HasField(rec, k) \/ ValueOf(rec.o, k).t = "string"
\* a list field is absent or null, or lists objects whose named fields are strings
ListOrAbsent(rec, k, fields) ==
    \/ ~HasField(rec, k)
    \/ ValueOf(rec.o, k) = Null
    \/ /\ ValueOf(rec.o, k).t = "array"
       /\ \A i \in 1..Len(ValueOf(rec.o, k).a) :
            \A f \in fields :
                /\ HasField(ValueOf(rec.o, k).a[i], f)
                /\ ValueOf(ValueOf(rec.o, k).a[i].o, f).t = "string"
WellFormedRecord(rec) ==
    /\ rec.t = "object"
    /\ StringOrAbsent(rec, "company")
    /\ StringOrAbsent(rec, "description")
    /\ ListOrAbsent(rec, "chats", {"chatbot"})
    /\ ListOrAbsent(rec, "llms", {"llm", "specialization"})

ChatbotNames(rec) ==
    [i \in 1..Len(ListOf(rec, "chats")) |-> TextOf(ListOf(rec, "chats")[i], "chatbot")]
LlmPairs(rec) ==
    [i \in 1..Len(ListOf(rec, "llms")) |->
        TextOf(ListOf(rec, "llms")[i], "llm") \o " ("
            \o TextOf(ListOf(rec, "llms")[i], "specialization") \o ")"]
FourLines(rec, chatbots, models) ==
    "Company: " \o TextOf(rec, "company")
        \o "\nDescription: " \o TextOf(rec, "description")
        \o "\nChatbots: " \o chatbots
        \o "\nLLM Models: " \o models
OrNone(text) == IF text = "" THEN "None" ELSE text
\* the block of a record with the lists joined as they are
JoinedBlock(rec) ==
    FourLines(rec, Separated(ChatbotNames(rec), ", "), Separated(LlmPairs(rec), ", "))
\* the block of a record with None for a list that gives no text
JoinedOrNoneBlock(rec) ==
    FourLines(rec, OrNone(Separated(ChatbotNames(rec), ", ")),
              OrNone(Separated(LlmPairs(rec), ", ")))

\* the records createContext renders: the getCompanies call succeeded and
\* its payload normalizes to the non-empty list of well-formed records
RendersRecords(list) ==
    /\ op = "sendMessageWithMCPContext"
    /\ pc \in {"openai", "done"}
    /\ mcpResult.ok
    /\ list.ok
    /\ list.v # <<>>
    /\ \A i \in 1..Len(list.v) : WellFormedRecord(list.v[i])
\* the system message of the enhanced conversation holds the text between
\* the fixed head and tail of the prompt
ContextIs(text) ==
    /\ enhanced.ok
    /\ Len(enhanced.v) >= 1
    /\ enhanced.v[1] = Message("system", RichPromptHead \o text \o RichPromptTail)

\* C20 as stated: the Chatbots and LLM Models lines hold the joined lists,
\* whatever the lists are.
C20_JoinedLists ==
    RendersRecords(CompaniesArray(mcpResult.v)) =>
        ContextIs(Separated([i \in 1..Len(CompaniesArray(mcpResult.v).v) |->
                                JoinedBlock(CompaniesArray(mcpResult.v).v[i])], "\n\n"))

\* C20 (amended): each record of a non-empty list yields the four lines
\* Company, Description, Chatbots, LLM Models in this order; Chatbots holds
\* the chatbot names joined by ", " and LLM Models the "llm (specialization)"
\* pairs joined by ", ", each replaced by None when the list is absent, null
\* or empty; the blocks follow the order of the list with one blank line
\* between two of them.
C20_Rendering ==
    RendersRecords(CompaniesArray(mcpResult.v)) =>
        ContextIs(Separated([i \in 1..Len(CompaniesArray(mcpResult.v).v) |->
                                JoinedOrNoneBlock(CompaniesArray(mcpResult.v).v[i])], "\n\n"))

\* two records were rendered, the second without llms
C20_Witness ==
    /\ RendersRecords(CompaniesArray(mcpResult.v))
    /\ CompaniesArray(mcpResult.v).v = <<AcmeDoc.value, BetaDoc.value>>
    /\ ContextIs("Company: Acme\nDescription: d\nChatbots: c1\nLLM Models: m1 (s1)"
                 \o "\n\nCompany: Beta\nDescription: e\nChatbots: c2, c3\nLLM Models: None")

----------------------------------------------------------------------------
(* Properties of concurrent turns and of the caller's conversation         *)
(* (SpecApp)                                                               *)

TurnRequests == {"tools/list", "getCompanies", "completion"}
\* the contents of the user messages in the body turn i has posted to the
\* completion endpoint
SentUserTexts(i) ==
    {calls[i].sent[1].messages[k].content :
        k \in {n \in 1..Len(calls[i].sent[1].messages) :
                    calls[i].sent[1].messages[n].role = "user"}}
\* turn i has a tool or completion call outstanding and n operations have
\* been started so far
OutstandingAt(i, n) ==
    /\ i \in Turns
    /\ calls[i].pending \cap TurnRequests # {}
    /\ Len(calls) = n
\* what turn i has sent holds no user message of an operation started after
\* the first n
SentBefore(i, n) ==
    i \in Turns /\ calls[i].sent # <<>> =>
        \A j \in Turns : j > n => calls[j].text \notin SentUserTexts(i)

\* C21 as stated: when a turn starts while an earlier turn has a tool or
\* completion call outstanding, the messages the earlier turn sends to the
\* completion endpoint do not include the user message of the later turn.
\* (Operation 1 is the startup handshake, and a later turn can start only
\* while fewer than MaxEvents + 1 operations have been started.)
C21_TurnsIndependent ==
    \A i \in 2..MaxEvents, n \in 2..MaxEvents :
        [](OutstandingAt(i, n) => [](SentBefore(i, n)))

\* some turn's answer arrives in this step and is appended to array a
AnswerAppended(a) ==
    \E i \in Turns :
        /\ CompletionEnds(i)
        /\ calls'[i].outcome.ok
        /\ a = conversationHistory
        /\ arrays'[a] = Append(arrays[a], Message("assistant", calls'[i].outcome.v.s))
\* some turn's timer fires in this step and its user message is appended to
\* array a
QuestionAppended(a) ==
    \E i \in Turns :
        /\ TimerFires(i)
        /\ a = conversationHistory
        /\ arrays'[a] = Append(arrays[a], Message("user", calls[i].text))

\* C22: the conversation arrays of App are changed by App alone: every
\* array holds user and assistant messages only, never a system message of
\* sendMessageWithMCPContext, and a step changes an array only by appending
\* the user message of a turn whose timer fires or the answer a turn
\* receives; the steps in which getCompanies answers and the completion
\* request is posted leave every array as it is.
C22_CallerOwnsConversation ==
    /\ [](\A a \in 1..Len(arrays) : \A k \in 1..Len(arrays[a]) :
            arrays[a][k].role \in {"user", "assistant"})
    /\ [][\A a \in 1..Len(arrays) :
            \/ arrays'[a] = arrays[a]
            \/ QuestionAppended(a)
            \/ AnswerAppended(a)]_vars

\* a turn has posted a conversation with a system message and received the
\* answer; the history holds the question and the answer
C22_Witness ==
    \E i \in Turns :
        /\ calls[i].pending = {}
        /\ calls[i].outcome = Ok(Str("hi"))
        /\ Len(calls[i].sent) = 1
        /\ Len(calls[i].sent[1].messages) = 2
        /\ calls[i].sent[1].messages[1].role = "system"
        /\ arrays[conversationHistory] =
               <<Message("user", calls[i].text), Message("assistant", "hi")>>

\* C23 as stated: mcpHealthStatus changes only in the step that starts a
\* handshake (to 'Checking...') or in the step that ends one (to 'Healthy'
\* or 'Unavailable'); no step of a user turn changes it.
C23_HandshakeOnlyWriter ==
    [][mcpHealthStatus' # mcpHealthStatus =>
          \/ /\ mcpHealthStatus' = "Checking..."
             /\ \E i \in 1..(MaxEvents + 1) : HandshakeStarts(i)
          \/ /\ mcpHealthStatus' \in {"Healthy", "Unavailable"}
             /\ \E i \in 1..(MaxEvents + 1) : HandshakeEnds(i)]_vars

\* the calls with a request to /api/mcp outstanding; a call posts one
\* request at a time, so the outstanding one is the last of rpc
AwaitingRpc ==
    {i \in 1..Len(calls) :
        calls[i].pending \cap {"initialize", "tools/list", "getCompanies"} # {}}
OutstandingId(i) == calls[i].rpc[Len(calls[i].rpc)].id

\* C24 as stated: no two requests to /api/mcp that are outstanding at the
\* same time carry the same id.
C24_FreshIds ==
    \A i \in AwaitingRpc, j \in AwaitingRpc :
        i # j => OutstandingId(i) # OutstandingId(j)

----------------------------------------------------------------------------
(* Properties of the normalization of the getCompanies payload             *)
(* (SpecEnrich).  The shape rules are written here on the fields of the    *)
(* payload, in the order the specification gives them.                     *)

\* the field k of v is a list
ListField(v, k) == HasField(v, k) /\ ValueOf(v.o, k).t = "array"
\* the payload has a content list whose first element carries a text field
CarriesText(p) ==
    /\ ListField(p, "content")
    /\ ValueOf(p.o, "content").a # <<>>
    /\ HasField(ValueOf(p.o, "content").a[1], "text")
\* the text of the first content element
CarriedText(p) == ValueOf(ValueOf(p.o, "content").a[1].o, "text").s
\* the rules for a value: a list is used directly, a companies list is
\* taken from its field, anything else is wrapped
RecordsOf(v) ==
    IF v.t = "array" THEN v.a
    ELSE IF ListField(v, "companies") THEN ValueOf(v.o, "companies").a
    ELSE <<v>>
\* the payloads the rules speak of: a parseable text in the first content
\* element, or else a list or an object
RecognizedShape(p) ==
    IF CarriesText(p) THEN \E d \in JsonDocs : d.text = CarriedText(p)
    ELSE p.t \in {"array", "object"}
\* the record list the rules give for a payload of a recognized shape
StatedRecords(p) ==
    IF CarriesText(p)
    THEN RecordsOf((CHOOSE d \in JsonDocs : d.text = CarriedText(p)).value)
    ELSE RecordsOf(p)

\* C25 as stated: for every getCompanies payload of a recognized shape the
\* record list createContext renders is the one the shape rules give; an
\* object whose content list is empty or whose first content element has no
\* text field is wrapped as a one-element list that holds the payload.
C25_ShapeRules ==
    EnrichDone /\ mcpResult.ok /\ RecognizedShape(mcpResult.v) =>
        /\ CompaniesArray(mcpResult.v).ok
        /\ CompaniesArray(mcpResult.v).v = StatedRecords(mcpResult.v)

----------------------------------------------------------------------------
(* Properties of the conversation history and of the replies of a turn     *)
(* (SpecApp, SpecAppFair)                                                  *)

\* the messages of App.conversationHistory
History == arrays[conversationHistory]
\* how many of the first n messages of the history have the role
CountRole(n, role) == Cardinality({k \in 1..n : History[k].role = role})

\* C26 as stated: the history is empty or starts with a user message, and
\* in every prefix of it the assistant messages are no more than the user
\* messages.
C26_AnswersFollowQuestions ==
    /\ History = <<>> \/ History[1].role = "user"
    /\ \A n \in 1..Len(History) : CountRole(n, "assistant") <= CountRole(n, "user")

\* the texts a turn may reply with, given its record at the end
ReplyTexts(c) ==
    IF c.outcome = None THEN {NoKeyNotice}
    ELSE IF c.outcome.ok THEN {c.outcome.v.s}
    ELSE {InvalidKeyText, RateLimitText, GenericErrorText}
\* turn i has ended: nothing is outstanding
TurnEnded(i) == i \in Turns /\ calls[i].pending = {}
\* this step appends one reply of turn i to the displayed messages
Replies(i) ==
    \E text \in ReplyTexts(calls'[i]) : appMessages' = Append(appMessages, Shown(text, FALSE))

\* C27: every turn ends, provided every timer fires and every issued
\* request completes: again and again, all the turns started so far have
\* ended.  The step that ends a turn appends one reply to the displayed
\* messages (the answer, an error text or the notice to configure the key),
\* no other step of the turn changes the displayed messages, and a turn
\* that has ended takes no further step.
C27_OneReply ==
    /\ [][\A i \in Turns :
            /\ calls'[i] # calls[i] =>
                  IF calls'[i].pending = {} THEN Replies(i)
                  ELSE appMessages' = appMessages
            /\ TurnEnded(i) => calls'[i] = calls[i]]_vars
    /\ []<>(\A i \in Turns : TurnEnded(i))

\* a turn has ended on the rate limit of the completion endpoint after both
\* of its MCP calls
C27_Witness ==
    \E i \in Turns :
        /\ TurnEnded(i)
        /\ RpcCount(i, "tools/list") = 1
        /\ RpcCount(i, "tools/call") = 1
        /\ Len(calls[i].sent) = 1
        /\ calls[i].reply = HttpFail(429)
        /\ LastShown = Shown(RateLimitText, FALSE)

\* the handshake issued last; handshakes are issued in the order of calls
LastCheck == CHOOSE i \in Checks : \A j \in Checks : j <= i
\* no initialize request is outstanding and no turn has posted tools/list,
\* so that every call that sets the status is a handshake
OnlyHandshakes ==
    /\ Checks # {}
    /\ \A i \in Checks : "initialize" \notin calls[i].pending
    /\ \A i \in Turns : RpcCount(i, "tools/list") = 0

\* C28 as stated, for handshakes: once no initialize call is outstanding,
\* mcpHealthStatus is the outcome of the handshake issued last, and the
\* response to a handshake that arrives after the response to a later
\* handshake leaves mcpHealthStatus as it is.
C28_LastIssuedWins ==
    /\ [](OnlyHandshakes =>
            mcpHealthStatus = IF calls[LastCheck].outcome.ok THEN "Healthy"
                              ELSE "Unavailable")
    /\ [][\A i \in Checks, j \in Checks :
            i < j /\ HandshakeEnds(i) /\ "initialize" \notin calls[j].pending =>
                mcpHealthStatus' = mcpHealthStatus]_vars

\* C29: when the timer of a turn fires while no credential is configured,
\* the turn ends in that step without any request to /api/mcp or to the
\* completion endpoint, the notice to configure the key is the one message
\* appended to the displayed messages, and the conversation arrays, the
\* history reference, mcpHealthStatus and every other call stay as they are.
C29_NoCredentialNoTurn ==
    [][\A i \in Turns :
        TimerFires(i) /\ apiKey = "" =>
            /\ calls'[i].pending = {}
            /\ calls'[i].rpc = <<>>
            /\ calls'[i].sent = <<>>
            /\ appMessages' = Append(appMessages, Shown(NoKeyNotice, FALSE))
            /\ arrays' = arrays
            /\ conversationHistory' = conversationHistory
            /\ mcpHealthStatus' = mcpHealthStatus
            /\ \A j \in 1..Len(calls) : j # i => calls'[j] = calls[j]]_vars

\* after an answered turn the credential was cleared, and the next turn
\* ended with the notice and without a request
C29_Witness ==
    \E i \in Turns, j \in Turns :
        /\ j < i
        /\ calls[j].outcome = Ok(Str("hi"))
        /\ TurnEnded(i)
        /\ calls[i].rpc = <<>>
        /\ calls[i].sent = <<>>
        /\ apiKey = ""
        /\ LastShown = Shown(NoKeyNotice, FALSE)
        /\ History = <<Message("user", calls[j].text), Message("assistant", "hi")>>

----------------------------------------------------------------------------
(* Properties of the configuration (SpecConfig) *)

\* C30: after the construction of ConfigService and after every operation
\* of it (setApiKey, setMcpServerUrl, updateConfig, clearConfig, a load on
\* a new page), whether or not the access to localStorage throws, the flag
\* isApiKeyConfigured is true exactly when the credential is a non-empty
\* string.
C30_FlagMatchesCredential == isApiKeyConfigured = (apiKey # "")

\* a credential is set in the service while localStorage still holds the
\* item without one: the save has failed
C30_Witness ==
    /\ apiKey = "sk-2"
    /\ isApiKeyConfigured
    /\ localStorage = Str(ConfigDoc("", "http://mcp.test").text)

\* getMcpServerUrl(): the endpoint base path the signal holds
getMcpServerUrl == mcpServerUrl

\* C31 as stated: after the construction of ConfigService and after any
\* sequence of its operations (load, setApiKey, setMcpServerUrl, updateConfig
\* with any partial configuration, clearConfig), getMcpServerUrl returns a
\* non-empty string.
C31_UrlNeverEmpty == getMcpServerUrl # ""

====
